---------------------------- MODULE Spec2Model ----------------------------
(***************************************************************************)
(* Deterministic analysis pipeline of the plant decision-support system:   *)
(*   RuleEngine.evaluate      (src/engine/rule_engine.py)                  *)
(*   MLModelManager           (src/engine/ml_models.py)                    *)
(*   DecisionLog.from_analysis(src/engine/decision_log.py)                 *)
(*   validate_analysis        (src/engine/validation.py)                   *)
(*                                                                         *)
(* Conventions.                                                            *)
(*  - A Python float is an exact rational [nan, num, den, radn, radd]      *)
(*    standing for num/den + sqrt(radn/radd); the square-root part is only *)
(*    used for the demand threshold avg + sigma*std.  Binary rounding of   *)
(*    floats is not modelled; round(x, 2) is.                              *)
(*  - A Python dict is a function whose DOMAIN is the set of keys present; *)
(*    d.get(k, default) is Get(d, k, default).                             *)
(*  - A Python str is a TLA+ string; lower(), replace() and the substring  *)
(*    test `k in s` are computed character by character.                   *)
(*  - A pandas DataFrame is [cols |-> columns present, rows |-> records].  *)
(*  - The wall-clock fields DecisionEntry.timestamp and                     *)
(*    DecisionLog.run_timestamp are left out; DecisionLog.run_id, a random *)
(*    uuid prefix, is an input drawn from RunIds.                          *)
(***************************************************************************)
EXTENDS Integers, Sequences, FiniteSets, TLC

VARIABLES
    pc,               \* position of the caller: "start", "done" or "raised"
    df,               \* scenario_df handed to evaluate / predict
    ctx,              \* context dict
    rule_output,      \* RuleEngineOutput returned by evaluate
    has_sklearn,      \* module flag HAS_SKLEARN
    breakdown_model,  \* MLModelManager.breakdown_model
    delay_model,      \* MLModelManager.delay_model
    trained,          \* MLModelManager.trained
    ml_output,        \* MLPredictions returned by predict
    recommendations,  \* recommendation records handed to from_analysis / validate
    log,              \* DecisionLog under construction / returned
    report            \* ValidationReport

vars == <<pc, df, ctx, rule_output, has_sklearn, breakdown_model, delay_model,
          trained, ml_output, recommendations, log, report>>

---------------------------------------------------------------------------
(* Bounds of the model                                                     *)

MaxRows == 2
MaxDemandRows == 6

---------------------------------------------------------------------------
(* Generic helpers: sequences and dicts                                    *)

Get(d, k, default) == IF k \in DOMAIN d THEN d[k] ELSE default

Range(s) == {s[i] : i \in 1..Len(s)}

RECURSIVE SeqsUpTo(_, _)
SeqsUpTo(S, n) ==
    IF n = 0 THEN {<<>>}
    ELSE LET shorter == SeqsUpTo(S, n - 1)
         IN  shorter \cup {Append(s, x) : s \in {t \in shorter : Len(t) = n - 1}, x \in S}

RECURSIVE SumSeq(_)
SumSeq(s) == IF s = <<>> THEN 0 ELSE Head(s) + SumSeq(Tail(s))

RECURSIVE MaxSeq(_)
MaxSeq(s) == IF Len(s) = 1 THEN s[1]
             ELSE LET m == MaxSeq(Tail(s)) IN IF s[1] >= m THEN s[1] ELSE m

\* pandas Series.unique(): the distinct values in order of first appearance
RECURSIVE Unique(_)
Unique(s) ==
    IF s = <<>> THEN <<>>
    ELSE LET front == Unique(SubSeq(s, 1, Len(s) - 1))
             last  == s[Len(s)]
         IN  IF last \in Range(front) THEN front ELSE Append(front, last)

RECURSIVE Concat(_)
Concat(ss) == IF ss = <<>> THEN <<>> ELSE Head(ss) \o Concat(Tail(ss))

---------------------------------------------------------------------------
(* Floats as exact rationals                                               *)

Num(n, d) == [nan |-> FALSE, num |-> n, den |-> d, radn |-> 0, radd |-> 1]
NaN == [nan |-> TRUE, num |-> 0, den |-> 1, radn |-> 0, radd |-> 1]
Whole(n) == Num(n, 1)

\* a + sqrt(r) for rationals a, r >= 0 (NaN if either is NaN)
PlusSqrt(a, r) ==
    IF a.nan \/ r.nan THEN NaN
    ELSE [nan |-> FALSE, num |-> a.num, den |-> a.den, radn |-> r.num, radd |-> r.den]

\* a < b under IEEE rules (false when either is NaN); at most one of a, b
\* carries a square-root part.
Lt(a, b) ==
    IF a.nan \/ b.nan THEN FALSE
    ELSE LET \* q = (rational part of b) - (rational part of a) = qn / qd, qd > 0
             qn == b.num * a.den - a.num * b.den
             qd == a.den * b.den
         IN  IF a.radn = 0 /\ b.radn = 0 THEN qn > 0
             ELSE IF a.radn = 0
                  THEN \* 0 < q + sqrt(rb)  <=>  q > 0 \/ q^2 < rb
                       qn > 0 \/ qn * qn * b.radd < b.radn * qd * qd
                  ELSE \* sqrt(ra) < q  <=>  q > 0 /\ ra < q^2
                       qn > 0 /\ a.radn * qd * qd < qn * qn * a.radd

Gt(a, b) == Lt(b, a)
Le(a, b) == IF a.nan \/ b.nan THEN FALSE ELSE ~Lt(b, a)

\* pandas Series.mean(): NaN on an empty series
Mean(vals) == IF vals = <<>> THEN NaN ELSE Num(SumSeq(vals), Len(vals))

\* pandas Series.std() squared: the sample variance (ddof = 1), NaN below 2 values
SampleVar(vals) ==
    LET n == Len(vals)
        S == SumSeq(vals)
        Q == SumSeq([i \in 1..n |-> vals[i] * vals[i]])
    IN  IF n < 2 THEN NaN ELSE Num(n * Q - S * S, n * (n - 1))

\* pandas Series.max(): NaN on an empty series
Peak(vals) == IF vals = <<>> THEN NaN ELSE Whole(MaxSeq(vals))

---------------------------------------------------------------------------
(* Strings                                                                 *)

\* Python `k in s`
Contains(s, k) ==
    \E i \in 1..(Len(s) - Len(k) + 1) : SubSeq(s, i, i + Len(k) - 1) = k

LowerChar(c) ==
    CASE c = "A" -> "a" [] c = "B" -> "b" [] c = "C" -> "c" [] c = "D" -> "d"
      [] c = "E" -> "e" [] c = "F" -> "f" [] c = "G" -> "g" [] c = "H" -> "h"
      [] c = "I" -> "i" [] c = "J" -> "j" [] c = "K" -> "k" [] c = "L" -> "l"
      [] c = "M" -> "m" [] c = "N" -> "n" [] c = "O" -> "o" [] c = "P" -> "p"
      [] c = "Q" -> "q" [] c = "R" -> "r" [] c = "S" -> "s" [] c = "T" -> "t"
      [] c = "U" -> "u" [] c = "V" -> "v" [] c = "W" -> "w" [] c = "X" -> "x"
      [] c = "Y" -> "y" [] c = "Z" -> "z" [] OTHER -> c

\* str.lower()
RECURSIVE Lower(_)
Lower(s) == IF s = "" THEN "" ELSE LowerChar(SubSeq(s, 1, 1)) \o Lower(SubSeq(s, 2, Len(s)))

\* str.replace("_", " ")
RECURSIVE Unscore(_)
Unscore(s) ==
    IF s = "" THEN ""
    ELSE (IF SubSeq(s, 1, 1) = "_" THEN " " ELSE SubSeq(s, 1, 1)) \o Unscore(SubSeq(s, 2, Len(s)))


---------------------------------------------------------------------------
(* Scenario tables                                                         *)

NumericCols == {"Machine_Uptime_%", "Demand_SUVs", "Inventory_Status_%",
                "Worker_Availability_%", "Defect_Rate_%", "Energy_Consumption_kWh"}
AllCols == {"Assembly_Line", "Shift", "Semiconductor_Availability"} \cup NumericCols

Row(line, shift, uptime, demand, inv, semi, worker) ==
    [c \in AllCols |->
        CASE c = "Assembly_Line" -> line
          [] c = "Shift" -> shift
          [] c = "Machine_Uptime_%" -> uptime
          [] c = "Demand_SUVs" -> demand
          [] c = "Inventory_Status_%" -> inv
          [] c = "Semiconductor_Availability" -> semi
          [] c = "Worker_Availability_%" -> worker
          [] c = "Defect_Rate_%" -> 1
          [] c = "Energy_Consumption_kWh" -> 500]

Table(cols, rows) == [cols |-> cols, rows |-> rows]

\* df[c] as a sequence of cell values
Col(d, c) == [i \in 1..Len(d.rows) |-> d.rows[i][c]]

\* df[df[c] == v]
Where(d, c, v) == [d EXCEPT !.rows = SelectSeq(d.rows, LAMBDA r : r[c] = v)]

\* Sort order of the semiconductor statuses (pandas sorts the modes)
StatusRank(v) ==
    CASE v = "Available" -> 1 [] v = "Critical" -> 2 [] v = "Delayed" -> 3
      [] v = "Shortage" -> 4 [] OTHER -> 5

Count(vals, v) == Cardinality({i \in 1..Len(vals) : vals[i] = v})

\* Series.mode().iloc[0] on a non-empty series: the most frequent value, the
\* smallest in sort order among ties
Mode(vals) ==
    CHOOSE v \in Range(vals) :
        \A w \in Range(vals) :
            \/ Count(vals, w) < Count(vals, v)
            \/ Count(vals, w) = Count(vals, v) /\ StatusRank(v) <= StatusRank(w)

---------------------------------------------------------------------------
(* Rule engine: src/engine/rule_engine.py                                  *)

machine_uptime_critical == 75
inventory_critical == 70
worker_availability_target == 92
demand_spike_sigma == 2
overload_utilization == 95

\* The human-readable condition string, kept as its format and its arguments
Cond(fmt, entity, extra, value, thr) ==
    [fmt |-> fmt, entity |-> entity, extra |-> extra, value |-> value, thr |-> thr]

RuleResult(name, fired, cond, thr, actual, action, sev) ==
    [rule_name |-> name, triggered |-> fired, condition |-> cond, threshold |-> thr,
     actual_value |-> actual, action |-> action, severity |-> sev]

\* Mutant: an average equal to the threshold fires
_check_machine_health_at_threshold(d, c) ==
    LET lines == Unique(Col(d, "Assembly_Line"))
        thr   == Whole(machine_uptime_critical)
    IN  [i \in 1..Len(lines) |->
            LET uptime == Mean(Col(Where(d, "Assembly_Line", lines[i]), "Machine_Uptime_%"))
                fired  == Le(uptime, thr)
            IN  RuleResult("Low Machine Health", fired,
                           Cond("Machine_Uptime_% for {line} = {uptime}% < {thr}%",
                                lines[i], "", uptime, thr),
                           thr, uptime, "DISPATCH_MAINTENANCE",
                           IF fired THEN "HIGH" ELSE "LOW")]

_check_machine_health(d, c) ==
    LET lines == Unique(Col(d, "Assembly_Line"))
        thr   == Whole(machine_uptime_critical)
    IN  [i \in 1..Len(lines) |->
            LET uptime == Mean(Col(Where(d, "Assembly_Line", lines[i]), "Machine_Uptime_%"))
                fired  == Lt(uptime, thr)
            IN  RuleResult("Low Machine Health", fired,
                           Cond("Machine_Uptime_% for {line} = {uptime}% < {thr}%",
                                lines[i], "", uptime, thr),
                           thr, uptime, "DISPATCH_MAINTENANCE",
                           IF fired THEN "HIGH" ELSE "LOW")]

IsDigit(ch) == ch \in {"0", "1", "2", "3", "4", "5", "6", "7", "8", "9"}

RECURSIVE DigitRun(_, _)
\* number of consecutive digits of s from position i on
DigitRun(s, i) ==
    IF i <= Len(s) /\ IsDigit(SubSeq(s, i, i)) THEN 1 + DigitRun(s, i + 1) ELSE 0

\* re.search(r'((?:HighRange|MedRange)_Line\d+)', desc): the leftmost match, "" for None
LineMatch(desc) ==
    LET prefixes == {"HighRange_Line", "MedRange_Line"}
        At(i, p) == /\ i + Len(p) - 1 <= Len(desc)
                    /\ SubSeq(desc, i, i + Len(p) - 1) = p
                    /\ DigitRun(desc, i + Len(p)) > 0
        hits == {i \in 1..Len(desc) : \E p \in prefixes : At(i, p)}
    IN  IF hits = {} THEN ""
        ELSE LET i == CHOOSE j \in hits : \A k \in hits : j <= k
                 p == CHOOSE q \in prefixes : At(i, q)
             IN  SubSeq(desc, i, i + Len(p) + DigitRun(desc, i + Len(p)) - 1)

\* Mutant: only the event type is looked at
is_failure_by_type_only(ev) == Lower(Get(ev, "Event_Type", "")) = "equipment_failure"

is_failure(ev) ==
    LET desc == Get(ev, "Description", "")
    IN  \/ Lower(Get(ev, "Event_Type", "")) = "equipment_failure"
        \/ Contains(Lower(desc), "breakdown")
        \/ Contains(Lower(desc), "malfunction")

_check_line_breakdown(c) ==
    LET event_details == Get(c, "event_details", <<>>)
        line_master   == Get(c, "line_master", <<>>)
        ForEvent(ev) ==
            IF ~is_failure(ev) THEN <<>>
            ELSE LET desc        == Get(ev, "Description", "")
                     line_name   == LineMatch(desc)
                     impact_area == Get(ev, "Impact_Areas", Get(ev, "Affected_Line", "Unknown"))
                     affected_label == IF line_name # "" THEN line_name ELSE impact_area
                     mttr == IF line_name # ""
                             THEN Get(Get(line_master, line_name, <<>>), "mttr_hrs", 0)
                             ELSE 0
                     repair == IF mttr # 0 THEN Whole(mttr) ELSE NaN
                 IN  << RuleResult("Line Breakdown Detected", TRUE,
                                   Cond("Equipment failure on {label} ({impact}) - repair est. {repair}",
                                        affected_label, impact_area, repair, Whole(0)),
                                   Whole(0), Whole(0), "DISPATCH_MAINTENANCE", "CRITICAL"),
                        RuleResult("Line Reallocation Required", TRUE,
                                   Cond("{label} offline - must redistribute production",
                                        affected_label, "", Whole(0), Whole(0)),
                                   Whole(0), Whole(0), "REALLOCATE_LINE", "HIGH") >>
    IN  Concat([i \in 1..Len(event_details) |-> ForEvent(event_details[i])])

\* Mutant: the spike test is peak >= threshold
_check_demand_spike_ge(d, c) ==
    LET demand == Col(d, "Demand_SUVs")
        avg    == Mean(demand)
        var    == SampleVar(demand)
        peak   == Peak(demand)
        thr    == PlusSqrt(avg, IF var.nan THEN NaN
                                ELSE Num(demand_spike_sigma * demand_spike_sigma * var.num, var.den))
        fired  == Le(thr, peak)
    IN  << RuleResult("Demand Spike Detection", fired,
                      Cond("Peak demand ({peak}) > threshold ({thr} = avg+{sigma}*std)",
                           "", "", peak, thr),
                      thr, peak, "INCREASE_SHIFT", IF fired THEN "HIGH" ELSE "LOW") >>

_check_demand_spike(d, c) ==
    LET demand == Col(d, "Demand_SUVs")
        avg    == Mean(demand)
        var    == SampleVar(demand)
        peak   == Peak(demand)
        \* sigma * std = sqrt(sigma^2 * var)
        thr    == PlusSqrt(avg, IF var.nan THEN NaN
                                ELSE Num(demand_spike_sigma * demand_spike_sigma * var.num, var.den))
        fired  == Gt(peak, thr)
    IN  << RuleResult("Demand Spike Detection", fired,
                      Cond(IF fired THEN "Peak demand ({peak}) > threshold ({thr} = avg+{sigma}*std)"
                                    ELSE "Peak demand ({peak}) <= threshold ({thr} = avg+{sigma}*std)",
                           "", "", peak, thr),
                      thr, peak, "INCREASE_SHIFT", IF fired THEN "HIGH" ELSE "LOW") >>

\* Mutant: a level equal to the threshold fires
_check_inventory_at_threshold(d, c) ==
    LET lines == Unique(Col(d, "Assembly_Line"))
        thr   == Whole(inventory_critical)
    IN  [i \in 1..Len(lines) |->
            LET level == Mean(Col(Where(d, "Assembly_Line", lines[i]), "Inventory_Status_%"))
                fired == Le(level, thr)
            IN  RuleResult("Low Inventory", fired,
                           Cond("Inventory for {line} = {level}% < {thr}%", lines[i], "", level, thr),
                           thr, level, "RAISE_SUPPLY_ALERT",
                           IF fired THEN "HIGH" ELSE "LOW")]

_check_inventory(d, c) ==
    LET lines == Unique(Col(d, "Assembly_Line"))
        thr   == Whole(inventory_critical)
    IN  [i \in 1..Len(lines) |->
            LET level == Mean(Col(Where(d, "Assembly_Line", lines[i]), "Inventory_Status_%"))
                fired == Lt(level, thr)
            IN  RuleResult("Low Inventory", fired,
                           Cond("Inventory for {line} = {level}% < {thr}%", lines[i], "", level, thr),
                           thr, level, "RAISE_SUPPLY_ALERT",
                           IF fired THEN "HIGH" ELSE "LOW")]

\* Mutant: a shortage fraction of exactly 30 % fires
supply_fired_at_fraction(mode, shortage_count, total) ==
    mode \in {"Shortage", "Critical"} \/ 10 * shortage_count >= 3 * total

\* fired = mode in ("Shortage", "Critical") or shortage_count > total * 0.3
supply_fired(mode, shortage_count, total) ==
    mode \in {"Shortage", "Critical"} \/ 10 * shortage_count > 3 * total

_check_supply_chain(d, c) ==
    IF "Semiconductor_Availability" \notin d.cols THEN <<>>
    ELSE LET semi  == Col(d, "Semiconductor_Availability")
             mode  == Mode(semi)
             shortage_count == Count(semi, "Shortage")
             total == Len(d.rows)
             fired == supply_fired(mode, shortage_count, total)
         IN  << RuleResult("Semiconductor Supply Risk", fired,
                           Cond("Semiconductor status = {mode} (Shortage in {count}/{total} records)",
                                mode, "", Num(shortage_count, total), Num(3, 10)),
                           Num(3, 10), Num(shortage_count, total), "SWITCH_SUPPLIER",
                           IF fired THEN "HIGH" ELSE "LOW") >>

sim_to_master ==
    [HighRange_1 |-> "HighRange_Line1", HighRange_2 |-> "HighRange_Line2",
     MediumRange_1 |-> "MedRange_Line1", MediumRange_2 |-> "MedRange_Line2",
     MediumRange_3 |-> "MedRange_Line3"]

\* Mutant: a utilization equal to the limit counts as overload
overload_fired_at_limit(utilization) == utilization >= overload_utilization

\* fired = utilization > 95
overload_fired(utilization) == utilization > overload_utilization

_check_overload(d, c) ==
    LET line_master == Get(c, "line_master", <<>>)
        affected_line == Get(Get(c, "scenario_impact", <<>>), "affected_line", "")
        lines == Unique(Col(d, "Assembly_Line"))
        ForLine(sim_name) ==
            LET master_name == Get(sim_to_master, sim_name, "")
                cap_info    == Get(line_master, master_name, <<>>)
                daily_cap   == Get(cap_info, "daily_capacity", 0)
                utilization == Get(cap_info, "utilization", 80)
                fired       == overload_fired(utilization)
            IN  IF affected_line # "" /\ (master_name = affected_line \/ sim_name = affected_line)
                THEN <<>>
                ELSE IF daily_cap > 0
                THEN << RuleResult("Line Overload", fired,
                                   Cond("{sim_name} utilization = {utilization}% of {daily_cap} units/day capacity",
                                        sim_name, "", Whole(utilization), Whole(overload_utilization)),
                                   Whole(overload_utilization), Whole(utilization), "REALLOCATE_LINE",
                                   IF fired THEN "HIGH" ELSE "LOW") >>
                ELSE <<>>
    IN  IF DOMAIN line_master = {} THEN <<>>
        ELSE Concat([i \in 1..Len(lines) |-> ForLine(lines[i])])

_check_workforce(d, c) ==
    LET shifts == Unique(Col(d, "Shift"))
        thr    == Whole(worker_availability_target)
    IN  [i \in 1..Len(shifts) |->
            LET avail == Mean(Col(Where(d, "Shift", shifts[i]), "Worker_Availability_%"))
                fired == Lt(avail, thr)
            IN  RuleResult("Workforce Below Target", fired,
                           Cond("Shift {shift} availability = {avail}% < target {thr}% (gap {gap}pp)",
                                shifts[i], "", avail, thr),
                           thr, avail, "INCREASE_SHIFT",
                           IF fired THEN "MEDIUM" ELSE "LOW")]

\* Mutant: the actions are listed without de-duplication
actions_with_duplicates(triggered) == [i \in 1..Len(triggered) |-> triggered[i].action]

\* list(dict.fromkeys(r.action for r in triggered))
ordered_unique_actions(triggered) == Unique([i \in 1..Len(triggered) |-> triggered[i].action])

severity_order(sev) ==
    CASE sev = "LOW" -> 0 [] sev = "MEDIUM" -> 1 [] sev = "HIGH" -> 2
      [] sev = "CRITICAL" -> 3 [] OTHER -> 0

\* Mutant: the loop assigns every triggered severity without comparing
overall_severity_of_last(triggered, overall) ==
    IF triggered = <<>> THEN overall ELSE triggered[Len(triggered)].severity

RECURSIVE overall_severity_of(_, _)
\* the loop of evaluate over the triggered rules, starting from `overall`
overall_severity_of(triggered, overall) ==
    IF triggered = <<>> THEN overall
    ELSE overall_severity_of(Tail(triggered),
             IF severity_order(Head(triggered).severity) > severity_order(overall)
             THEN Head(triggered).severity ELSE overall)

\* The columns and cells evaluate reads: a missing one raises KeyError, and
\* mode().iloc[0] of an empty series raises IndexError.
evaluate_raises(d, c) ==
    \/ "Assembly_Line" \notin d.cols
    \/ "Demand_SUVs" \notin d.cols
    \/ "Shift" \notin d.cols
    \/ d.rows # <<>> /\ "Machine_Uptime_%" \notin d.cols
    \/ d.rows # <<>> /\ "Inventory_Status_%" \notin d.cols
    \/ d.rows # <<>> /\ "Worker_Availability_%" \notin d.cols
    \/ d.rows = <<>> /\ "Semiconductor_Availability" \in d.cols

RuleEngineOutput(results, triggered, actions, overall) ==
    [all_results |-> results, triggered_rules |-> triggered,
     recommended_actions |-> actions, overall_severity |-> overall]

\* RuleEngineOutput(): the dataclass defaults
NoRuleOutput == RuleEngineOutput(<<>>, <<>>, <<>>, "LOW")

evaluate(d, c) ==
    LET results == _check_machine_health(d, c) \o _check_line_breakdown(c)
                   \o _check_demand_spike(d, c) \o _check_inventory(d, c)
                   \o _check_supply_chain(d, c) \o _check_overload(d, c)
                   \o _check_workforce(d, c)
        triggered == SelectSeq(results, LAMBDA r : r.triggered)
    IN  RuleEngineOutput(results, triggered, ordered_unique_actions(triggered),
                         overall_severity_of(triggered, "LOW"))


---------------------------------------------------------------------------
(* Prediction layer: src/engine/ml_models.py                               *)

\* Python min(a, b) and max(a, b): the first argument unless the second is
\* strictly smaller (larger); a NaN second argument is never chosen.
PyMin(a, b) == IF Lt(b, a) THEN b ELSE a
PyMax(a, b) == IF Gt(b, a) THEN b ELSE a

\* (k - x) * n / d for a rational x
Affine(k, x, n, d) ==
    IF x.nan THEN NaN ELSE Num((k * x.den - x.num) * n, x.den * d)

\* round(n / d) to the nearest integer, ties to the even one (d > 0)
RoundHalfEven(n, d) ==
    LET q == n \div d
        r == n - q * d
    IN  IF 2 * r < d THEN q
        ELSE IF 2 * r > d THEN q + 1
        ELSE IF q % 2 = 0 THEN q ELSE q + 1

\* round(x, 2): x in hundredths, on the exact value of x
Round2(x) == IF x.nan THEN NaN ELSE Num(RoundHalfEven(100 * x.num, x.den), 100)

ALL_LINES == <<"HighRange_1", "HighRange_2", "MediumRange_1", "MediumRange_2", "MediumRange_3">>

\* The keys of LINE_NAME_MAP that map to the canonical line
possible_names(canonical_line) ==
    CASE canonical_line = "HighRange_1" -> {"HighRange_Line1", "HighRange_1"}
      [] canonical_line = "HighRange_2" -> {"HighRange_Line2", "HighRange_2"}
      [] canonical_line = "MediumRange_1" -> {"MedRange_Line1", "MediumRange_1"}
      [] canonical_line = "MediumRange_2" -> {"MedRange_Line2", "MediumRange_2"}
      [] canonical_line = "MediumRange_3" -> {"MedRange_Line3", "MediumRange_3"}
      [] OTHER -> {}

\* _line_df_for_canonical: the matching rows; pd.DataFrame() (no columns, no
\* rows) when none matches
_line_df_for_canonical(d, canonical_line) ==
    LET hit == SelectSeq(d.rows, LAMBDA r : r["Assembly_Line"] \in possible_names(canonical_line))
    IN  IF hit # <<>> THEN Table(d.cols, hit) ELSE Table({}, <<>>)

\* Mutant: no substitution of the whole table for a line without records
use_df_without_fallback(d, line) == _line_df_for_canonical(d, line)

\* use_df = line_df if len(line_df) > 0 else df
use_df_for(d, line) ==
    LET line_df == _line_df_for_canonical(d, line)
    IN  IF Len(line_df.rows) > 0 THEN line_df ELSE d

BreakdownPrediction(line, probability, risk_level, factors) ==
    [line |-> line, probability |-> probability, risk_level |-> risk_level,
     contributing_factors |-> factors]

DelayPrediction(risk_score, risk_level, line, factors, method) ==
    [risk_score |-> risk_score, risk_level |-> risk_level, line |-> line,
     factors |-> factors, calculation_breakdown |-> [method |-> method, line |-> line]]

SupplierRisk(name, score, risk_level, lead, reliability) ==
    [supplier_name |-> name, score |-> score, risk_level |-> risk_level,
     lead_time_days |-> lead, reliability |-> reliability]

order_map(line) ==
    IF \E i \in 1..Len(ALL_LINES) : ALL_LINES[i] = line
    THEN (CHOOSE i \in 1..Len(ALL_LINES) : ALL_LINES[i] = line) - 1
    ELSE 99

Neg(x) == IF x.nan THEN NaN ELSE Num(0 - x.num, x.den)

\* key tuples (int, float) compared as Python compares tuples
KeyBefore(k, l) == k[1] < l[1] \/ (k[1] = l[1] /\ Lt(k[2], l[2]))

RECURSIVE InsertSorted(_, _)
\* insert the pair <<key, item>> after every pair whose key is not larger: a
\* step of a stable sort
InsertSorted(sorted, x) ==
    IF sorted = <<>> THEN <<x>>
    ELSE IF KeyBefore(x[1], Head(sorted)[1]) THEN <<x>> \o sorted
    ELSE <<Head(sorted)>> \o InsertSorted(Tail(sorted), x)

RECURSIVE SortPairs(_)
SortPairs(pairs) ==
    IF pairs = <<>> THEN <<>>
    ELSE InsertSorted(SortPairs(SubSeq(pairs, 1, Len(pairs) - 1)), pairs[Len(pairs)])

\* sorted(xs, key=...), stable; keys[i] is the key of xs[i]
StableSort(xs, keys) ==
    LET sorted == SortPairs([i \in 1..Len(xs) |-> <<keys[i], xs[i]>>])
    IN  [i \in 1..Len(xs) |-> sorted[i][2]]

\* sorted(preds, key=lambda p: (order_map.get(p.line, 99), -p.<value>)); values[i]
\* is the value of preds[i]
sort_by_line(preds, values) ==
    StableSort(preds, [i \in 1..Len(preds) |-> <<order_map(preds[i].line), Neg(values[i])>>])

\* Bucket boundaries in hundredths: 0.6 / 0.3, and 0.5 / 0.25 in _heuristic_breakdown
bucket_high == 60
bucket_medium == 30
heuristic_bucket_high == 50
heuristic_bucket_medium == 25
low_uptime_factor == 80
low_inventory_risk == 75

\* Mutant: the heuristic probability is bucketed at the classifier's cuts
_heuristic_breakdown_at_classifier_cuts(d) ==
    LET ForLine(line) ==
            LET use_df == use_df_for(d, line)
                uptime == IF "Machine_Uptime_%" \in use_df.cols
                          THEN Mean(Col(use_df, "Machine_Uptime_%")) ELSE Whole(85)
                prob   == PyMax(Whole(0), PyMin(Whole(1), Affine(100, uptime, 1, 50)))
                risk   == IF Gt(prob, Num(bucket_high, 100)) THEN "HIGH"
                          ELSE IF Gt(prob, Num(bucket_medium, 100)) THEN "MEDIUM"
                          ELSE "LOW"
                factors == IF Lt(uptime, Whole(low_uptime_factor)) THEN <<"Low uptime">> ELSE <<>>
            IN  BreakdownPrediction(line, Round2(prob), risk, factors)
    IN  LET preds == [i \in 1..Len(ALL_LINES) |-> ForLine(ALL_LINES[i])]
        IN  sort_by_line(preds, [i \in 1..Len(preds) |-> preds[i].probability])

_heuristic_breakdown(d) ==
    LET ForLine(line) ==
            LET use_df == use_df_for(d, line)
                uptime == IF "Machine_Uptime_%" \in use_df.cols
                          THEN Mean(Col(use_df, "Machine_Uptime_%")) ELSE Whole(85)
                prob   == PyMax(Whole(0), PyMin(Whole(1), Affine(100, uptime, 1, 50)))
                risk   == IF Gt(prob, Num(heuristic_bucket_high, 100)) THEN "HIGH"
                          ELSE IF Gt(prob, Num(heuristic_bucket_medium, 100)) THEN "MEDIUM"
                          ELSE "LOW"
                factors == IF Lt(uptime, Whole(low_uptime_factor)) THEN <<"Low uptime">> ELSE <<>>
            IN  BreakdownPrediction(line, Round2(prob), risk, factors)
    IN  LET preds == [i \in 1..Len(ALL_LINES) |-> ForLine(ALL_LINES[i])]
        IN  sort_by_line(preds, [i \in 1..Len(preds) |-> preds[i].probability])

\* The modal semiconductor status the delay prediction reports for a line
semi_mode_for(d, use_df) ==
    IF "Semiconductor_Availability" \in use_df.cols /\ Len(use_df.rows) > 0
    THEN Mode(Col(use_df, "Semiconductor_Availability"))
    ELSE IF "Semiconductor_Availability" \in d.cols /\ Len(d.rows) > 0
    THEN Mode(Col(d, "Semiconductor_Availability"))
    ELSE "Available"

\* Mutant: a Delayed status adds as much as a Shortage
heuristic_delay_score_delayed_as_shortage(inv, semi_mode) ==
    PyMin(Whole(1), Num(20 + (IF Lt(inv, Whole(low_inventory_risk)) THEN 30 ELSE 0)
                           + (IF semi_mode \in {"Shortage", "Delayed"} THEN 30 ELSE 0), 100))

\* risk_score of _heuristic_delay_per_line, in hundredths: 0.2, +0.3, +0.3 / +0.15,
\* then min(1.0, risk_score)
heuristic_delay_score(inv, semi_mode) ==
    PyMin(Whole(1), Num(20 + (IF Lt(inv, Whole(low_inventory_risk)) THEN 30 ELSE 0)
                           + (IF semi_mode = "Shortage" THEN 30
                              ELSE IF semi_mode = "Delayed" THEN 15 ELSE 0), 100))

_heuristic_delay_per_line(d) ==
    LET ForLine(line) ==
            LET use_df == use_df_for(d, line)
                inv0 == IF "Inventory_Status_%" \in use_df.cols
                        THEN Mean(Col(use_df, "Inventory_Status_%")) ELSE Whole(80)
                inv  == IF inv0.nan THEN Whole(80) ELSE inv0
                semi_mode == semi_mode_for(d, use_df)
                risk_score == heuristic_delay_score(inv, semi_mode)
                risk == IF Gt(risk_score, Num(bucket_high, 100)) THEN "HIGH"
                        ELSE IF Gt(risk_score, Num(bucket_medium, 100)) THEN "MEDIUM"
                        ELSE "LOW"
            IN  DelayPrediction(Round2(risk_score), risk, line,
                                <<"Inventory", "Semiconductor: " \o semi_mode>>, "Heuristic")
    IN  LET preds == [i \in 1..Len(ALL_LINES) |-> ForLine(ALL_LINES[i])]
        IN  sort_by_line(preds, [i \in 1..Len(preds) |-> preds[i].risk_score])

\* --- the fitted estimators (scikit-learn, outside the repository) ---
\* A model is [state, features, below, above]: state "none" (None), "unfitted"
\* (the estimator object assigned before a fit that raised) or "fitted".  A
\* fitted estimator is a deterministic function of the feature vector; it is
\* modelled as a decision stump on the mean of its first feature, with the
\* two leaf values drawn when fit() returns.
Model(state, features, below, above) ==
    [state |-> state, features |-> features, below |-> below, above |-> above]

NoModel == Model("none", <<>>, 0, 0)

stump_cut(feature) ==
    CASE feature = "Machine_Uptime_%" -> 80
      [] feature = "Inventory_Status_%" -> 75
      [] feature = "Worker_Availability_%" -> 92
      [] OTHER -> 2

\* X = use_df[features].fillna(0).mean(), then the estimator's output
stump_output(model, use_df) ==
    LET x == Mean(Col(use_df, model.features[1]))
    IN  IF Lt(x, Whole(stump_cut(model.features[1]))) THEN model.below ELSE model.above

\* Mutant: the risk score is not clamped to [0, 1]
delay_risk_score_unclamped(kpi_impact) == Affine(10, kpi_impact, 1, 10)

\* max(0.0, min(1.0, 1.0 - kpi_impact / 10.0))
delay_risk_score(kpi_impact) ==
    PyMax(Whole(0), PyMin(Whole(1), Affine(10, kpi_impact, 1, 10)))

_predict_breakdown(model, d) ==
    IF model.state = "none" THEN _heuristic_breakdown(d)
    ELSE LET ForLine(line) ==
                 LET use_df == use_df_for(d, line)
                     \* predict_proba(X)[0, 1], in thousandths
                     prob   == Num(stump_output(model, use_df), 1000)
                     risk   == IF Gt(prob, Num(bucket_high, 100)) THEN "HIGH"
                               ELSE IF Gt(prob, Num(bucket_medium, 100)) THEN "MEDIUM"
                               ELSE "LOW"
                     uptime == IF "Machine_Uptime_%" \in use_df.cols
                               THEN Mean(Col(use_df, "Machine_Uptime_%")) ELSE Whole(85)
                     defect == IF "Defect_Rate_%" \in use_df.cols
                               THEN Mean(Col(use_df, "Defect_Rate_%")) ELSE Whole(1)
                     factors == (IF Lt(uptime, Whole(low_uptime_factor)) THEN <<"Low uptime">> ELSE <<>>)
                                \o (IF Gt(defect, Num(15, 10)) THEN <<"High defect rate">> ELSE <<>>)
                 IN  BreakdownPrediction(line, Round2(prob), risk, factors)
         IN  LET preds == [i \in 1..Len(ALL_LINES) |-> ForLine(ALL_LINES[i])]
             IN  sort_by_line(preds, [i \in 1..Len(preds) |-> preds[i].probability])

_predict_delay_per_line(model, d) ==
    IF model.state = "none" THEN _heuristic_delay_per_line(d)
    ELSE LET ForLine(line) ==
                 LET use_df == use_df_for(d, line)
                     \* delay_model.predict(X)[0], in hundredths
                     kpi_impact == Num(stump_output(model, use_df), 100)
                     risk_score == delay_risk_score(kpi_impact)
                     risk == IF Gt(risk_score, Num(bucket_high, 100)) THEN "HIGH"
                             ELSE IF Gt(risk_score, Num(bucket_medium, 100)) THEN "MEDIUM"
                             ELSE "LOW"
                     semi == semi_mode_for(d, use_df)
                 IN  DelayPrediction(Round2(risk_score), risk, line,
                                     <<"Inventory", "Semiconductor: " \o semi>>,
                                     "ML (Gradient Boosting Regressor)")
         IN  LET preds == [i \in 1..Len(ALL_LINES) |-> ForLine(ALL_LINES[i])]
             IN  sort_by_line(preds, [i \in 1..Len(preds) |-> preds[i].risk_score])

max_suppliers == 15
supplier_band_low == 80
supplier_band_medium == 60

\* The loop of _heuristic_supplier_risk: one SupplierRisk per supplier of
\* suppliers[:15], in input order
supplier_risks_of(c) ==
    LET suppliers == Get(c, "suppliers", <<>>)
        first == SubSeq(suppliers, 1, IF Len(suppliers) < max_suppliers
                                      THEN Len(suppliers) ELSE max_suppliers)
        ForSupplier(s) ==
            LET reliability == Get(s, "reliability", Whole(85))
                lead  == Get(s, "lead_time_days", 5)
                \* reliability - lead * 1.5
                raw   == Num(2 * reliability.num - 3 * lead * reliability.den, 2 * reliability.den)
                score == PyMax(Whole(0), PyMin(Whole(100), raw))
                risk  == IF ~Lt(score, Whole(supplier_band_low)) THEN "LOW"
                         ELSE IF ~Lt(score, Whole(supplier_band_medium)) THEN "MEDIUM"
                         ELSE "HIGH"
            IN  SupplierRisk(Get(s, "name", Get(s, "id", "Unknown")),
                             Round2(score), risk, lead, reliability)
    IN  [i \in 1..Len(first) |-> ForSupplier(first[i])]

\* Mutant: the list is returned in input order
_heuristic_supplier_risk_unsorted(c) == supplier_risks_of(c)

\* sorted(risks, key=lambda r: r.score, reverse=True)
_heuristic_supplier_risk(c) ==
    LET risks == supplier_risks_of(c)
    IN  StableSort(risks, [i \in 1..Len(risks) |-> <<0, Neg(risks[i].score)>>])

\* max(delay_list, key=lambda d: d.risk_score): the first of the largest
first_max_delay(delay_list) ==
    LET i == CHOOSE j \in 1..Len(delay_list) :
                 /\ \A k \in 1..Len(delay_list) : ~Gt(delay_list[k].risk_score, delay_list[j].risk_score)
                 /\ \A k \in 1..(j - 1) : Lt(delay_list[k].risk_score, delay_list[j].risk_score)
    IN  delay_list[i]

MLPredictions(breakdown, delay, delays, suppliers, models_trained) ==
    [breakdown_predictions |-> breakdown,
     delay_prediction |-> delay,
     delay_predictions |-> delays,
     supplier_risks |-> suppliers,
     models_trained |-> models_trained]

\* An estimator raises on predict when it was never fitted, when a feature it
\* was fitted on is not a column of the table (KeyError) or when the feature
\* means are NaN (an empty table).
estimator_raises(model, d) ==
    /\ model.state # "none"
    /\ \/ model.state = "unfitted"
       \/ \E i \in 1..Len(ALL_LINES) :
             LET use_df == use_df_for(d, ALL_LINES[i])
             IN  \/ ~(Range(model.features) \subseteq use_df.cols)
                 \/ Len(use_df.rows) = 0

predict_raises(bm, dm, is_trained, d) ==
    is_trained /\ (estimator_raises(bm, d) \/ estimator_raises(dm, d))

predict(bm, dm, is_trained, d, c) ==
    LET delay_list == IF is_trained THEN _predict_delay_per_line(dm, d)
                      ELSE _heuristic_delay_per_line(d)
        breakdown  == IF is_trained THEN _predict_breakdown(bm, d)
                      ELSE _heuristic_breakdown(d)
    IN  MLPredictions(breakdown,
                      IF delay_list # <<>> THEN first_max_delay(delay_list) ELSE <<>>,
                      delay_list, _heuristic_supplier_risk(c), is_trained)

\* --- training ---
breakdown_features ==
    <<"Machine_Uptime_%", "Worker_Availability_%", "Defect_Rate_%", "Energy_Consumption_kWh">>
delay_features ==
    <<"Inventory_Status_%", "Machine_Uptime_%", "Worker_Availability_%", "Defect_Rate_%">>

min_positives == 5

\* The training table, by what train() reads of it: its columns, the number of
\* Maintenance_Alert rows, and whether each estimator's fit() returns or raises.
TrainingData(cols, positives, breakdown_fit_ok, delay_fit_ok) ==
    [cols |-> cols, positives |-> positives,
     breakdown_fit_ok |-> breakdown_fit_ok, delay_fit_ok |-> delay_fit_ok]

\* [model, raised] after _train_breakdown_model; leaves are the fitted outputs
_train_breakdown_model(model, data, leaves) ==
    LET available == SelectSeq(breakdown_features, LAMBDA f : f \in data.cols)
    IN  IF available = <<>> \/ "Alert_Status" \notin data.cols
        THEN [model |-> model, raised |-> FALSE]
        ELSE IF data.positives < min_positives
        THEN [model |-> model, raised |-> FALSE]
        ELSE IF data.breakdown_fit_ok
        THEN [model |-> Model("fitted", available, leaves[1], leaves[2]), raised |-> FALSE]
        ELSE [model |-> Model("unfitted", model.features, 0, 0), raised |-> TRUE]

_train_delay_model(model, data, leaves) ==
    LET available == SelectSeq(delay_features, LAMBDA f : f \in data.cols)
    IN  IF "Predicted_KPI_Impact_%" \notin data.cols
        THEN [model |-> model, raised |-> FALSE]
        ELSE IF available = <<>>
        THEN [model |-> model, raised |-> FALSE]
        ELSE IF data.delay_fit_ok
        THEN [model |-> Model("fitted", available, leaves[1], leaves[2]), raised |-> FALSE]
        ELSE [model |-> Model("unfitted", model.features, 0, 0), raised |-> TRUE]

\* [breakdown_model, delay_model, trained] after train(df)
train(sklearn, bm, dm, is_trained, data, bleaves, dleaves) ==
    LET b == _train_breakdown_model(bm, data, bleaves)
        d == _train_delay_model(dm, data, dleaves)
    IN  IF ~sklearn
        THEN [breakdown_model |-> bm, delay_model |-> dm, trained |-> is_trained]
        ELSE IF b.raised
        THEN [breakdown_model |-> b.model, delay_model |-> dm, trained |-> is_trained]
        ELSE IF d.raised
        THEN [breakdown_model |-> b.model, delay_model |-> d.model, trained |-> is_trained]
        ELSE [breakdown_model |-> b.model, delay_model |-> d.model, trained |-> TRUE]

---------------------------------------------------------------------------
(* Inputs of the rule engine                                               *)

MaxEvents == 2

Lines == {"HighRange_1", "MediumRange_1"}

\* (shift, worker availability), (uptime, inventory) and semiconductor status
\* vary independently; two rows of one line or shift can average exactly onto
\* a threshold (70 and 80 -> 75, 65 and 75 -> 70, 90 and 94 -> 92).
RuleRows ==
    {Row(l, sh[1], h[1], 100, h[2], se, sh[2]) :
        l \in Lines, sh \in {<<"Morning", 90>>, <<"Night", 94>>},
        h \in {<<70, 65>>, <<80, 75>>, <<70, 75>>}, se \in {"Available", "Shortage"}}

RuleColSets == {AllCols, AllCols \ {"Semiconductor_Availability"}}

RuleTables == {Table(cols, rows) : cols \in RuleColSets, rows \in SeqsUpTo(RuleRows, MaxRows)}

EventSet ==
    { [Event_Type |-> "Equipment_Failure", Description |-> "Robot arm stopped",
       Impact_Areas |-> "Production"],
      [Event_Type |-> "incident", Description |-> "Breakdown on MedRange_Line1"],
      [Event_Type |-> "incident", Description |-> "Conveyor MALFUNCTION at HighRange_Line2"],
      [Event_Type |-> "demand_spike", Description |-> "Order surge"] }

LineInfo(cap, util, oee, mttr) ==
    [daily_capacity |-> cap, utilization |-> util, oee |-> oee, mttr_hrs |-> mttr]

LineMasters ==
    { [HighRange_Line1 |-> LineInfo(120, 97, 85, 4), MedRange_Line1 |-> LineInfo(100, 80, 90, 6)] }

\* Master data that lacks a line of the table, has a utilization on the limit,
\* lacks the utilization, or has no capacity for a line
OverloadMasters ==
    { [HighRange_Line1 |-> LineInfo(120, 95, 85, 4)],
      [HighRange_Line1 |-> [daily_capacity |-> 120, oee |-> 85, mttr_hrs |-> 4],
       MedRange_Line1 |-> LineInfo(0, 99, 90, 6)],
      [HighRange_Line1 |-> LineInfo(120, 96, 85, 4), MedRange_Line1 |-> LineInfo(100, 99, 90, 6)] }

\* A dict from optional parts: a part that is <<>> leaves its key out
DictOf(parts) ==
    LET keys == {k \in DOMAIN parts : parts[k].present}
    IN  [k \in keys |-> parts[k].value]

Present(v) == [present |-> TRUE, value |-> v]
Absent == [present |-> FALSE, value |-> <<>>]

RuleContexts ==
    {DictOf([event_details |-> ev, line_master |-> lm, scenario_impact |-> si]) :
        ev \in {Present(e) : e \in SeqsUpTo(EventSet, MaxEvents)},
        lm \in {Absent} \cup {Present(m) : m \in LineMasters \cup OverloadMasters},
        si \in {Absent} \cup {Present([affected_line |-> a]) :
                                a \in {"HighRange_Line1", "MediumRange_1"}}}

\* A few contexts to go with every table, and a few tables to go with every context
CoreContexts ==
    LET m == CHOOSE x \in LineMasters : TRUE
        e == [Event_Type |-> "incident", Description |-> "Breakdown on MedRange_Line1"]
    IN  { [k \in {} |-> 0],
          DictOf([line_master |-> Present(m)]),
          DictOf([event_details |-> Present(<<e>>), line_master |-> Present(m),
                  scenario_impact |-> Present([affected_line |-> "HighRange_Line1"])]) }

CoreTables ==
    {Table(AllCols, rows) :
        rows \in SeqsUpTo({Row("HighRange_1", "Morning", 70, 100, 65, "Shortage", 90),
                           Row("MediumRange_1", "Night", 80, 100, 75, "Available", 94)}, 2)}

\* Tables that differ in the semiconductor column only, and one of ten records
\* of which exactly three are Shortage
MaxSupplyRows == 4

SupplyStatuses == {"Available", "Critical", "Delayed", "Shortage"}

SupplyTable(statuses) ==
    Table(AllCols, [i \in 1..Len(statuses) |->
                       Row("HighRange_1", "Morning", 90, 100, 80, statuses[i], 95)])

SupplyTables ==
    {SupplyTable(ss) : ss \in SeqsUpTo(SupplyStatuses, MaxSupplyRows) \ {<<>>}}
    \cup {SupplyTable([i \in 1..10 |-> IF i <= 3 THEN "Shortage"
                                       ELSE IF i <= 8 THEN "Available" ELSE "Delayed"])}

\* Tables that lack one of the columns the checks read, with and without rows
MissingColumnTables ==
    {Table(cols \ {c}, rows) :
        cols \in RuleColSets,
        c \in {"Assembly_Line", "Machine_Uptime_%", "Demand_SUVs", "Inventory_Status_%",
               "Shift", "Worker_Availability_%"},
        rows \in {<<>>, <<Row("HighRange_1", "Morning", 70, 100, 65, "Shortage", 90)>>}}

RuleInputs ==
    (RuleTables \X CoreContexts) \cup (CoreTables \X RuleContexts)
    \cup ((MissingColumnTables \cup SupplyTables) \X {[k \in {} |-> 0]})

\* Tables that differ in the demand column only
DemandVals == {100, 110, 150}

DemandTables ==
    {Table(AllCols, [i \in 1..Len(ds) |-> Row("HighRange_1", "Morning", 90, ds[i], 80, "Available", 95)]) :
        ds \in SeqsUpTo(DemandVals, MaxDemandRows) \ {<<>>}}

---------------------------------------------------------------------------
(* Components at rest: the state each specification leaves alone           *)

NoPredictions ==
    [breakdown_predictions |-> <<>>, delay_prediction |-> <<>>, delay_predictions |-> <<>>,
     supplier_risks |-> <<>>, models_trained |-> FALSE]
NoLog == [entries |-> <<>>, run_id |-> "", scenario |-> ""]
NewReport == [checks |-> <<>>, overall_passed |-> TRUE]

RuleIdle == rule_output = NoRuleOutput
MLIdle == /\ has_sklearn = TRUE /\ breakdown_model = NoModel /\ delay_model = NoModel
          /\ trained = FALSE /\ ml_output = NoPredictions
LogIdle == recommendations = <<>> /\ log = NoLog
ReportIdle == report = NewReport

---------------------------------------------------------------------------
(* RuleEngine.evaluate as an operation                                     *)

Evaluate ==
    /\ pc = "start"
    /\ IF evaluate_raises(df, ctx)
       THEN pc' = "raised" /\ rule_output' = rule_output
       ELSE pc' = "done" /\ rule_output' = evaluate(df, ctx)
    /\ UNCHANGED <<df, ctx, has_sklearn, breakdown_model, delay_model, trained,
                   ml_output, recommendations, log, report>>

InitRule ==
    /\ pc = "start" /\ \E inp \in RuleInputs : df = inp[1] /\ ctx = inp[2]
    /\ RuleIdle /\ MLIdle /\ LogIdle /\ ReportIdle

NextRule == Evaluate

SpecRule == InitRule /\ [][NextRule]_vars

InitDemand ==
    /\ pc = "start" /\ df \in DemandTables /\ ctx = [k \in {} |-> 0]
    /\ RuleIdle /\ MLIdle /\ LogIdle /\ ReportIdle

SpecDemand == InitDemand /\ [][NextRule]_vars


---------------------------------------------------------------------------
(* MLModelManager.train and MLModelManager.predict as operations            *)

MaxMLRows == 2
MaxSuppliers == 2

\* Lines: an alias of HighRange_1 and a name no canonical line maps from.
\* (uptime, inventory, semiconductor): uptime 40 and 100 reach both clamps,
\* uptime 72 gives the heuristic probability 0.56.
MLRows ==
    {Row(l, "Morning", h[1], 100, h[2], h[3], 95) :
        l \in {"HighRange_Line1", "Other"},
        h \in {<<40, 60, "Shortage">>, <<100, 90, "Available">>,
               <<78, 74, "Delayed">>, <<90, 80, "Available">>, <<72, 80, "Delayed">>}}

MLColSets == {AllCols, AllCols \ {"Machine_Uptime_%", "Inventory_Status_%", "Semiconductor_Availability"}}

MLTables == {Table(cols, rows) : cols \in MLColSets, rows \in SeqsUpTo(MLRows, MaxMLRows)}

Supplier(name, reliability, lead) ==
    [id |-> "S-" \o name, name |-> name, reliability |-> reliability, lead_time_days |-> lead]

SupplierSet ==
    { Supplier("Alpha", Whole(90), 10),
      Supplier("Beta", Whole(95), 2),
      Supplier("Gamma", Num(79996, 1000), 0),
      Supplier("Delta", Whole(50), 40),
      Supplier("Epsilon", Whole(80), 0),
      [id |-> "S-Zeta"] }

SupplierContexts == {[suppliers |-> ss] : ss \in SeqsUpTo(SupplierSet, MaxSuppliers)}

MLCoreTable ==
    Table(AllCols, <<Row("HighRange_Line1", "Morning", 78, 100, 74, "Delayed", 95)>>)

\* One supplier more than _heuristic_supplier_risk reads
ManySuppliers == [i \in 1..(max_suppliers + 1) |-> Supplier("Bulk", Whole(90), 10)]

MLInputs ==
    (MLTables \X {[k \in {} |-> 0]})
    \cup ({MLCoreTable} \X (SupplierContexts \cup {[suppliers |-> ManySuppliers]}))

TrainingColSets ==
    { NumericCols \cup {"Alert_Status", "Predicted_KPI_Impact_%"},
      NumericCols \cup {"Alert_Status"},
      NumericCols \cup {"Predicted_KPI_Impact_%"} }

TrainingSets ==
    {TrainingData(cols, p, bok, dok) :
        cols \in TrainingColSets, p \in {min_positives - 1, min_positives},
        bok \in BOOLEAN, dok \in BOOLEAN}

\* predict_proba outputs in thousandths, below / above the cut
ClassifierLeaves == {<<604, 296>>, <<1000, 0>>}
\* predicted KPI impact in hundredths, below / above the cut
RegressorLeaves == {<<-250, 1200>>, <<396, 704>>}

Train(data, bleaves, dleaves) ==
    /\ pc = "start"
    /\ LET after == train(has_sklearn, breakdown_model, delay_model, trained, data, bleaves, dleaves)
       IN  /\ breakdown_model' = after.breakdown_model
           /\ delay_model' = after.delay_model
           /\ trained' = after.trained
    /\ UNCHANGED <<pc, df, ctx, rule_output, has_sklearn, ml_output, recommendations, log, report>>

Predict(d, c) ==
    /\ pc = "start"
    /\ df' = d /\ ctx' = c
    /\ IF predict_raises(breakdown_model, delay_model, trained, d)
       THEN pc' = "raised" /\ ml_output' = ml_output
       ELSE pc' = "done" /\ ml_output' = predict(breakdown_model, delay_model, trained, d, c)
    /\ UNCHANGED <<rule_output, has_sklearn, breakdown_model, delay_model, trained,
                   recommendations, log, report>>

InitML ==
    /\ pc = "start" /\ df = Table(AllCols, <<>>) /\ ctx = [k \in {} |-> 0]
    /\ has_sklearn \in BOOLEAN
    /\ breakdown_model = NoModel /\ delay_model = NoModel /\ trained = FALSE
    /\ ml_output = NoPredictions
    /\ RuleIdle /\ LogIdle /\ ReportIdle

NextML ==
    \/ \E data \in TrainingSets, bl \in ClassifierLeaves, dl \in RegressorLeaves : Train(data, bl, dl)
    \/ \E inp \in MLInputs : Predict(inp[1], inp[2])

SpecML == InitML /\ [][NextML]_vars

---------------------------------------------------------------------------
(* Recommendation records and other loosely typed values                    *)

\* A Python value of a recommendation list: a str, None, an int (s holds its
\* decimal text) or a dict (d maps the keys present to values of this kind)
PyStr(s) == [type |-> "str", s |-> s, d |-> <<>>]
PyNone == [type |-> "NoneType", s |-> "", d |-> <<>>]
PyInt(text) == [type |-> "int", s |-> text, d |-> <<>>]
PyDict(d) == [type |-> "dict", s |-> "", d |-> d]

\* str(v)
StrOf(v) == IF v.type = "NoneType" THEN "None" ELSE v.s

\* bool(v)
Truthy(v) ==
    CASE v.type = "str" -> v.s # ""
      [] v.type = "NoneType" -> FALSE
      [] v.type = "int" -> v.s # "0"
      [] OTHER -> DOMAIN v.d # {}

DigitChar(n) == SubSeq("0123456789", n + 1, n + 1)

\* str(n) for n >= 0
RECURSIVE IntStr(_)
IntStr(n) == IF n < 10 THEN DigitChar(n) ELSE IntStr(n \div 10) \o DigitChar(n % 10)

\* f"{n:02d}": at least two digits, zero-padded
Pad2(n) == IF n < 10 THEN "0" \o IntStr(n) ELSE IntStr(n)

\* xs[:n]
Take(xs, n) == SubSeq(xs, 1, IF Len(xs) < n THEN Len(xs) ELSE n)

---------------------------------------------------------------------------
(* Output validation: src/engine/validation.py                              *)

\* The detail text, kept as its format and the values it formats
Detail(fmt, args) == [fmt |-> fmt, args |-> args]

ValidationCheck(name, passed, detail, severity) ==
    [name |-> name, passed |-> passed, detail |-> detail, severity |-> severity]

\* Mutant: overall_passed follows the last check only
add_last_only(r, name, passed, detail, severity) ==
    [checks |-> Append(r.checks, ValidationCheck(name, passed, detail, severity)),
     overall_passed |-> ~(~passed /\ severity = "error")]

\* ValidationReport.add
add(r, name, passed, detail, severity) ==
    [checks |-> Append(r.checks, ValidationCheck(name, passed, detail, severity)),
     overall_passed |-> IF ~passed /\ severity = "error" THEN FALSE ELSE r.overall_passed]

\* 1. Rule engine validation
RECURSIVE validate_rules(_, _)
validate_rules(r, triggered_rules) ==
    IF triggered_rules = <<>> THEN r
    ELSE LET t == Head(triggered_rules)
             name == Lower(t.rule_name)
             ok == Lt(t.actual_value, t.threshold)
             checked == t.triggered /\ (Contains(name, "uptime") \/ Contains(name, "machine")
                                        \/ Contains(name, "inventory"))
             after == IF checked
                      THEN add(r, "Rule '" \o t.rule_name \o "' threshold", ok,
                               Detail("Actual {actual:.1f} < threshold {threshold}",
                                      <<t.actual_value, t.threshold>>),
                               IF ok THEN "info" ELSE "warning")
                      ELSE r
         IN  validate_rules(after, Tail(triggered_rules))

in_unit_range(x) == Le(Whole(0), x) /\ Le(x, Whole(1))

max_ml_checks == 5

\* Mutant: the limit is tested before a prediction is checked
RECURSIVE validate_breakdown_limit_first(_, _)
validate_breakdown_limit_first(r, preds) ==
    IF preds = <<>> \/ Len(r.checks) >= max_ml_checks THEN r
    ELSE LET bp == Head(preds)
             ok == in_unit_range(bp.probability)
             after == add(r, "Breakdown prob for " \o bp.line \o " in [0, 1]", ok,
                          Detail("Probability = {prob:.3f}", <<bp.probability>>),
                          IF ~ok THEN "error" ELSE "info")
         IN  validate_breakdown_limit_first(after, Tail(preds))

\* the loop over breakdown_predictions, left once the report holds 5 checks
RECURSIVE validate_breakdown(_, _)
validate_breakdown(r, preds) ==
    IF preds = <<>> THEN r
    ELSE LET bp == Head(preds)
             ok == in_unit_range(bp.probability)
             after == add(r, "Breakdown prob for " \o bp.line \o " in [0, 1]", ok,
                          Detail("Probability = {prob:.3f}", <<bp.probability>>),
                          IF ~ok THEN "error" ELSE "info")
         IN  IF Len(after.checks) >= max_ml_checks THEN after
             ELSE validate_breakdown(after, Tail(preds))

\* 2. ML output validation
validate_ml(r, ml) ==
    LET risk == ml.delay_prediction.risk_score
        ok == in_unit_range(risk)
        after == IF ml.delay_prediction # <<>>
                 THEN add(r, "Delay risk in range [0, 1]", ok,
                          Detail("Delay risk score = {risk:.3f}", <<risk>>),
                          IF ~ok THEN "error" ELSE "info")
                 ELSE r
    IN  validate_breakdown(after, ml.breakdown_predictions)

max_recs_validated == 5

\* max(s.get("max_overtime_hrs", 0) for s in shift_master.values(), default=0)
max_overtime(shift_master) ==
    LET hrs == {Get(shift_master[k], "max_overtime_hrs", 0) : k \in DOMAIN shift_master}
    IN  IF hrs = {} THEN 0 ELSE CHOOSE h \in hrs : \A g \in hrs : g <= h

\* 3. Recommendation validation, over recommendations[:5] from index i on
RECURSIVE validate_recs(_, _, _, _)
validate_recs(r, recs, i, c) ==
    IF i > Len(recs) THEN r
    ELSE LET rec == recs[i]
             action == Get(rec.d, "action", Get(rec.d, "recommendation", PyStr("")))
             action_lower == Lower(StrOf(action))
             r1 == IF Contains(action_lower, "production") \/ Contains(action_lower, "realloc")
                   THEN add(r, "Rec #" \o IntStr(i) \o " production/realloc", TRUE,
                            Detail("Action: {action[:60]}...", <<Take(StrOf(action), 60)>>), "info")
                   ELSE r
             r2 == IF Contains(action_lower, "overtime") \/ Contains(action_lower, "shift")
                   THEN add(r1, "Rec #" \o IntStr(i) \o " overtime", TRUE,
                            Detail("Max overtime from master: {max_ot}h per shift",
                                   <<max_overtime(Get(c, "shift_master", <<>>))>>), "info")
                   ELSE r1
         IN  validate_recs(r2, recs, i + 1, c)

required_keys == <<"scenario", "line_master", "demand">>

\* Mutant: missing context keys are recorded with severity error
validate_context_as_error(r, c) ==
    LET missing == SelectSeq(required_keys, LAMBDA k : k \notin DOMAIN c \/ c[k] = PyNone)
    IN  add(r, "Context completeness", missing = <<>>,
            IF missing # <<>> THEN Detail("Missing: {missing}", <<missing>>)
            ELSE Detail("All required keys present", <<>>),
            IF missing # <<>> THEN "error" ELSE "info")

\* 4. Context completeness
validate_context(r, c) ==
    LET missing == SelectSeq(required_keys, LAMBDA k : k \notin DOMAIN c \/ c[k] = PyNone)
    IN  add(r, "Context completeness", missing = <<>>,
            IF missing # <<>> THEN Detail("Missing: {missing}", <<missing>>)
            ELSE Detail("All required keys present", <<>>),
            IF missing # <<>> THEN "warning" ELSE "info")

default_oee == 85
default_utilization == 100

Times(a, b) == IF a.nan \/ b.nan THEN NaN ELSE Num(a.num * b.num, a.den * b.den)

\* |a - b|
AbsDiff(a, b) ==
    LET n == a.num * b.den - b.num * a.den
    IN  IF a.nan \/ b.nan THEN NaN ELSE Num(IF n < 0 THEN 0 - n ELSE n, a.den * b.den)

\* Mutant: the recomputation leaves utilization out
units_lost_expected_without_utilization(cap, oee, util, mttr) ==
    Round2(Times(Times(cap, Times(oee, Num(1, 100))), Times(mttr, Num(1, 24))))

\* round(cap * (oee / 100) * (util / 100) * (mttr / 24), 2)
units_lost_expected(cap, oee, util, mttr) ==
    Round2(Times(Times(Times(cap, Times(oee, Num(1, 100))), Times(util, Num(1, 100))),
                 Times(mttr, Num(1, 24))))

NonZero(x) == x.nan \/ x.num # 0

\* 5. Units lost formula validation (the multiplication signs of the check's
\* name are written x)
validate_units_lost(r, c) ==
    LET si == Get(c, "scenario_impact", <<>>)
        has(k) == k \in DOMAIN si
    IN  IF /\ has("actual_units_lost_during_outage")
           /\ has("capacity_lost") /\ NonZero(si["capacity_lost"])
           /\ has("mttr_hrs") /\ NonZero(si["mttr_hrs"])
        THEN LET cap  == si["capacity_lost"]
                 oee  == Get(si, "oee_used", Whole(default_oee))
                 util == Get(si, "utilization_used", Whole(default_utilization))
                 mttr == si["mttr_hrs"]
                 expected == units_lost_expected(cap, oee, util, mttr)
                 actual == si["actual_units_lost_during_outage"]
                 \* abs(expected - actual) < 0.1
                 formula_ok == Lt(AbsDiff(expected, actual), Num(1, 10))
             IN  add(r, "Units lost formula (capacity x OEE x utilization x MTTR/24)", formula_ok,
                     Detail("Expected {expected}, got {actual} (cap={cap}, oee={oee}%, util={util}%, mttr={mttr}h)",
                            <<expected, actual, cap, oee, util, mttr>>),
                     IF ~formula_ok THEN "error" ELSE "info")
        ELSE r

\* rec.get on a recommendation that is not a dict raises AttributeError
validate_raises(recs) ==
    \E i \in 1..Len(Take(recs, max_recs_validated)) : recs[i].type # "dict"

validate_analysis(ro, ml, recs, c) ==
    LET r1 == validate_rules(NewReport, ro.triggered_rules)
        r2 == validate_ml(r1, ml)
        r3 == validate_recs(r2, Take(recs, max_recs_validated), 1, c)
        r4 == validate_context(r3, c)
    IN  validate_units_lost(r4, c)

---------------------------------------------------------------------------
(* Decision log: src/engine/decision_log.py                                 *)

\* A formatted text that embeds a structured value: its format and arguments
Text(fmt, args) == [fmt |-> fmt, args |-> args]

\* str(x) of a non-negative float with at most two decimals: 4.0, 11.3, 11.33
FloatRepr(x) ==
    LET h == (x.num * 100) \div x.den
        frac == h % 100
    IN  IntStr(h \div 100) \o "." \o
        (IF frac % 10 = 0 THEN DigitChar(frac \div 10)
         ELSE DigitChar(frac \div 10) \o DigitChar(frac % 10))

\* f"{p*100:.0f}%" of a non-negative float
Percent(p) == IntStr(RoundHalfEven(100 * p.num, p.den)) \o "%"

\* _ACTION_KPI_MAP, in insertion order
_ACTION_KPI_MAP ==
    << <<"DISPATCH_MAINTENANCE", "Line Downtime: +2-8 hrs; On-time Delivery: -5 to -15%">>,
       <<"REALLOCATE_LINE", "On-time Delivery: -3 to -10%; Production Efficiency: -15 to -25%">>,
       <<"SWITCH_SUPPLIER", "Lead Time: +2-5 days; Inventory Cost: +5 to +10%">>,
       <<"INCREASE_SHIFT", "Overtime Cost: +12 to +18%; Worker Availability: +2 to +5%">>,
       <<"RAISE_SUPPLY_ALERT", "Inventory Risk: stockout within 2-4 days if not addressed">> >>

kpi_of(tag) == (CHOOSE e \in Range(_ACTION_KPI_MAP) : e[1] = tag)[2]

\* "; ".join(parts)
RECURSIVE Join(_)
Join(parts) ==
    IF parts = <<>> THEN ""
    ELSE IF Len(parts) = 1 THEN parts[1]
    ELSE parts[1] \o "; " \o Join(Tail(parts))

\* any(kw in text for kw in kws)
AnyIn(text, kws) == \E kw \in kws : Contains(text, kw)

\* si.get(k) as a truth value, for the float fields of scenario_impact
FieldSet(si, k) == k \in DOMAIN si /\ NonZero(si[k])

\* _derive_with_context
_derive_with_context(base, si, mttr_sens) ==
    IF FieldSet(si, "actual_units_lost_during_outage")
    THEN base \o " | Units lost: ~" \o FloatRepr(si["actual_units_lost_during_outage"])
              \o " during outage"
    ELSE IF Get(mttr_sens, "orders_at_risk", <<>>) # <<>>
    THEN base \o " | Orders at risk: " \o IntStr(Len(mttr_sens["orders_at_risk"]))
    ELSE base

\* Mutant: the scan adds the impact of every triggered rule's action
RECURSIVE matched_impacts_by_triggered_action(_, _, _, _)
matched_impacts_by_triggered_action(i, impacts, action_lower, triggered) ==
    IF i > Len(_ACTION_KPI_MAP) THEN impacts
    ELSE LET rule_action == _ACTION_KPI_MAP[i][1]
             action_words == Unscore(Lower(rule_action))
             by_rule == \E k \in 1..Len(triggered) : triggered[k].action = rule_action
         IN  IF Contains(action_lower, action_words)
             THEN Append(impacts, _ACTION_KPI_MAP[i][2])
             ELSE matched_impacts_by_triggered_action(i + 1,
                                  IF by_rule THEN Append(impacts, _ACTION_KPI_MAP[i][2])
                                  ELSE impacts,
                                  action_lower, triggered)

\* the loop over _ACTION_KPI_MAP of _derive_kpi_impact, from entry i on
RECURSIVE matched_impacts(_, _, _, _)
matched_impacts(i, impacts, action_lower, triggered) ==
    IF i > Len(_ACTION_KPI_MAP) THEN impacts
    ELSE LET rule_action == _ACTION_KPI_MAP[i][1]
             action_words == Unscore(Lower(rule_action))
             by_rule == \E k \in 1..Len(triggered) :
                           /\ triggered[k].action = rule_action
                           /\ Contains(action_lower, Unscore(Lower(triggered[k].action)))
         IN  IF Contains(action_lower, action_words)
             THEN Append(impacts, _ACTION_KPI_MAP[i][2])
             ELSE matched_impacts(i + 1,
                                  IF by_rule THEN Append(impacts, _ACTION_KPI_MAP[i][2])
                                  ELSE impacts,
                                  action_lower, triggered)

\* _derive_kpi_impact(action, rule_output, context) for a str action
_derive_kpi_impact(action, ro, c) ==
    LET action_lower == Lower(action)
        si == Get(c, "scenario_impact", <<>>)
        mttr_sens == Get(c, "mttr_sensitivity", <<>>)
        impacts == matched_impacts(1, <<>>, action_lower, ro.triggered_rules)
        base == Join(impacts)
        units_lost == Get(si, "actual_units_lost_during_outage", Whole(0))
        base1 == IF /\ FieldSet(si, "mttr_hrs")
                    /\ AnyIn(action_lower, {"maintenance", "breakdown", "repair"})
                    /\ NonZero(units_lost)
                 THEN base \o " | Units lost during " \o FloatRepr(si["mttr_hrs"])
                           \o "h outage: ~" \o FloatRepr(units_lost)
                 ELSE base
        base2 == IF Get(mttr_sens, "orders_at_risk", <<>>) # <<>> /\ Contains(action_lower, "realloc")
                 THEN base1 \o " | Orders at risk: " \o IntStr(Len(mttr_sens["orders_at_risk"]))
                 ELSE base1
    IN  IF impacts # <<>> THEN base2
        ELSE IF AnyIn(action_lower, {"repair", "maintenance", "breakdown"})
        THEN _derive_with_context(kpi_of("DISPATCH_MAINTENANCE"), si, mttr_sens)
        ELSE IF AnyIn(action_lower, {"realloc", "production", "line"})
        THEN _derive_with_context(kpi_of("REALLOCATE_LINE"), si, mttr_sens)
        ELSE IF AnyIn(action_lower, {"supplier", "expedit", "semiconductor"})
        THEN kpi_of("SWITCH_SUPPLIER")
        ELSE IF AnyIn(action_lower, {"overtime", "shift", "workforce", "worker"})
        THEN kpi_of("INCREASE_SHIFT")
        ELSE IF AnyIn(action_lower, {"inventory", "reorder", "stock"})
        THEN kpi_of("RAISE_SUPPLY_ALERT")
        ELSE "Refer to KPI Summary for projected impact"

RuleDict(r) ==
    [rule |-> r.rule_name, condition |-> r.condition, threshold |-> r.threshold,
     actual |-> r.actual_value, action |-> r.action, severity |-> r.severity]

\* f"{r.rule_name}: {r.condition}"
BreachString(r) == Text("{rule_name}: {condition}", <<r.rule_name, r.condition>>)

is_relevant(rd, action_lower, agent_lower) ==
    \/ Contains(action_lower, Unscore(Lower(rd.action)))
    \/ Contains(action_lower, Lower(rd.rule))
    \/ (Contains(agent_lower, "maintenance") /\ rd.action = "DISPATCH_MAINTENANCE")
    \/ (Contains(agent_lower, "production") /\ rd.action = "REALLOCATE_LINE")
    \/ (Contains(agent_lower, "inventory") /\ rd.action \in {"RAISE_SUPPLY_ALERT", "SWITCH_SUPPLIER"})
    \/ (Contains(agent_lower, "workforce") /\ rd.action = "INCREASE_SHIFT")
    \/ (Contains(agent_lower, "supply") /\ rd.action = "SWITCH_SUPPLIER")
    \/ (Contains(agent_lower, "health") /\ rd.action = "DISPATCH_MAINTENANCE")

\* severity_order.get(severity, 0) of from_analysis
log_severity_order(sev) ==
    CASE sev = "CRITICAL" -> 3 [] sev = "HIGH" -> 2 [] sev = "MEDIUM" -> 1 [] OTHER -> 0

\* Mutant: the first triggered rule is taken, whatever its severity
top_rule_index_first(rule_dicts) == 1

\* max(all_rule_dicts, key=lambda x: severity_order.get(x["severity"], 0)): the
\* index of the first of the largest
top_rule_index(rule_dicts) ==
    CHOOSE i \in 1..Len(rule_dicts) :
        /\ \A j \in 1..Len(rule_dicts) :
              log_severity_order(rule_dicts[j].severity)
                  <= log_severity_order(rule_dicts[i].severity)
        /\ \A j \in 1..(i - 1) :
              log_severity_order(rule_dicts[j].severity)
                  < log_severity_order(rule_dicts[i].severity)

\* Mutant: nothing is shown when no rule is relevant
relevant_indices_without_fallback(rule_dicts, action_lower, agent_lower) ==
    LET hits == SelectSeq([i \in 1..Len(rule_dicts) |-> i],
                          LAMBDA i : is_relevant(rule_dicts[i], action_lower, agent_lower))
    IN  [k \in 1..Len(hits) |-> <<hits[k], hits[k]>>]

\* The indices of the rules shown with a recommendation: the relevant ones, or
\* the first of the most severe when none is relevant
relevant_indices(rule_dicts, action_lower, agent_lower) ==
    LET hits == SelectSeq([i \in 1..Len(rule_dicts) |-> i],
                          LAMBDA i : is_relevant(rule_dicts[i], action_lower, agent_lower))
        top  == top_rule_index(rule_dicts)
        \* all_rule_dicts.index(top_rule): the first equal dict
        idx  == CHOOSE i \in 1..Len(rule_dicts) :
                    /\ rule_dicts[i] = rule_dicts[top]
                    /\ \A j \in 1..(i - 1) : rule_dicts[j] # rule_dicts[top]
    IN  IF hits = <<>> /\ rule_dicts # <<>> THEN <<<<top, idx>>>>
        ELSE [k \in 1..Len(hits) |-> <<hits[k], hits[k]>>]

max_excerpts == 3
max_traced_breakdowns == 2

\* entry_ml: the ML predictions shown with a recommendation
entry_ml_of(ml, action_lower, agent_lower) ==
    LET want_breakdown == \/ AnyIn(action_lower, {"breakdown", "maintenance", "repair"})
                          \/ Contains(agent_lower, "health")
        want_delay == \/ AnyIn(action_lower, {"delay", "reorder"})
                      \/ AnyIn(agent_lower, {"inventory", "supply"})
        want_supplier == Contains(action_lower, "supplier") \/ Contains(agent_lower, "supply")
        has_breakdown == want_breakdown /\ ml.breakdown_predictions # <<>>
        has_delay == want_delay /\ ml.delay_prediction # <<>>
        has_supplier == want_supplier /\ ml.supplier_risks # <<>>
        nothing == ~has_breakdown /\ ~has_delay /\ ~has_supplier
        first_b == Take(ml.breakdown_predictions, max_excerpts)
        first_s == Take(ml.supplier_risks, max_excerpts)
    IN  DictOf([
            models_trained |-> Present(ml.models_trained),
            breakdown |-> IF has_breakdown
                THEN Present([i \in 1..Len(first_b) |->
                        [line |-> first_b[i].line, probability |-> first_b[i].probability,
                         risk |-> first_b[i].risk_level]])
                ELSE Absent,
            delay |-> IF has_delay
                THEN Present([risk_score |-> ml.delay_prediction.risk_score,
                              risk_level |-> ml.delay_prediction.risk_level,
                              factors |-> ml.delay_prediction.factors])
                ELSE Absent,
            supplier_risks |-> IF has_supplier
                THEN Present([i \in 1..Len(first_s) |->
                        [name |-> first_s[i].supplier_name, score |-> first_s[i].score,
                         risk |-> first_s[i].risk_level]])
                ELSE Absent,
            breakdown_top |-> IF nothing /\ ml.breakdown_predictions # <<>>
                THEN Present([line |-> ml.breakdown_predictions[1].line,
                              probability |-> ml.breakdown_predictions[1].probability])
                ELSE Absent,
            delay_risk |-> IF nothing /\ ml.delay_prediction # <<>>
                THEN Present(ml.delay_prediction.risk_score)
                ELSE Absent ])

supporting_of(ro, ml, action_lower, agent_lower) ==
    LET by_rule == SelectSeq(ro.triggered_rules,
                       LAMBDA r : \/ Contains(action_lower, Unscore(Lower(r.action)))
                                  \/ Contains(action_lower, Lower(r.rule_name)))
        rules == [i \in 1..Len(by_rule) |->
                     Text("Rule '{rule_name}' fired: {condition}",
                          <<by_rule[i].rule_name, by_rule[i].condition>>)]
        breakdown == IF /\ ml.breakdown_predictions # <<>>
                        /\ (AnyIn(action_lower, {"breakdown", "maintenance"})
                            \/ Contains(agent_lower, "health"))
                     THEN <<Text("ML breakdown risk for {line}: {pct}",
                                 <<ml.breakdown_predictions[1].line,
                                   Percent(ml.breakdown_predictions[1].probability)>>)>>
                     ELSE <<>>
        delay == IF /\ ml.delay_prediction # <<>>
                    /\ (Contains(action_lower, "delay") \/ AnyIn(agent_lower, {"inventory", "supply"}))
                 THEN <<Text("ML delay risk: {pct}", <<Percent(ml.delay_prediction.risk_score)>>)>>
                 ELSE <<>>
        supporting == rules \o breakdown \o delay
    IN  IF supporting # <<>> THEN supporting
        ELSE (IF ml.breakdown_predictions # <<>>
              THEN <<Text("ML breakdown risk (top): {pct}",
                          <<Percent(ml.breakdown_predictions[1].probability)>>)>>
              ELSE <<>>)
             \o (IF ml.delay_prediction # <<>>
                 THEN <<Text("ML delay risk: {pct}", <<Percent(ml.delay_prediction.risk_score)>>)>>
                 ELSE <<>>)

logic_trace_of(relevant_rules, entry_ml, c) ==
    LET si == Get(c, "scenario_impact", <<>>)
        rules == [i \in 1..Len(relevant_rules) |->
                     Text("Rule '{rule}': {condition} (actual={actual}, threshold={threshold})",
                          <<relevant_rules[i].rule, relevant_rules[i].condition,
                            relevant_rules[i].actual, relevant_rules[i].threshold>>)]
        traced == Take(Get(entry_ml, "breakdown", <<>>), max_traced_breakdowns)
        breakdown == [i \in 1..Len(traced) |->
                         Text("ML breakdown: {line} risk {pct}",
                              <<traced[i].line, Percent(traced[i].probability)>>)]
        delay == IF "delay" \in DOMAIN entry_ml
                 THEN <<Text("ML delay risk: {pct} ({risk_level})",
                             <<Percent(entry_ml["delay"].risk_score), entry_ml["delay"].risk_level>>)>>
                 ELSE <<>>
        field(k) == IF k \in DOMAIN si THEN FloatRepr(si[k]) ELSE "N/A"
        scenario == IF FieldSet(si, "mttr_hrs") \/ FieldSet(si, "actual_units_lost_during_outage")
                    THEN <<Text("Scenario: MTTR {mttr_hrs}h, units lost {units_lost}",
                                <<field("mttr_hrs"), field("actual_units_lost_during_outage")>>)>>
                    ELSE <<>>
    IN  rules \o breakdown \o delay \o scenario

\* The fields read from a recommendation through rec.get
rec_action(rec) == Get(rec.d, "action", Get(rec.d, "recommendation", PyStr("N/A")))
rec_agent(rec) == Get(rec.d, "source_agent", Get(rec.d, "agent", PyStr("Orchestrator")))
rec_reasoning(rec) == Get(rec.d, "reasoning", Get(rec.d, "why", PyStr("")))
rec_kpi(rec) ==
    Get(rec.d, "expected_kpi_impact", Get(rec.d, "kpi_impact", Get(rec.d, "expected_impact", PyStr(""))))

\* The body of the loop raises AttributeError for a recommendation without
\* .get (not a dict), or whose action or agent has no .lower (not a str)
rec_raises(rec) ==
    \/ rec.type # "dict"
    \/ rec_action(rec).type # "str"
    \/ rec_agent(rec).type # "str"

\* The DecisionEntry appended for a well-formed recommendation when the log
\* holds n entries
DecisionEntry(run_id, scenario, ro, ml, rec, c, n) ==
    LET action == rec_action(rec).s
        agent == rec_agent(rec).s
        kpi == IF Truthy(rec_kpi(rec)) THEN StrOf(rec_kpi(rec))
               ELSE _derive_kpi_impact(action, ro, c)
        action_lower == Lower(action)
        agent_lower == Lower(agent)
        all_rule_dicts == [i \in 1..Len(ro.triggered_rules) |-> RuleDict(ro.triggered_rules[i])]
        all_breach_strings == [i \in 1..Len(ro.triggered_rules) |-> BreachString(ro.triggered_rules[i])]
        shown == relevant_indices(all_rule_dicts, action_lower, agent_lower)
        relevant_rules == [k \in 1..Len(shown) |-> all_rule_dicts[shown[k][1]]]
        relevant_breaches == [k \in 1..Len(shown) |-> all_breach_strings[shown[k][2]]]
        entry_ml == entry_ml_of(ml, action_lower, agent_lower)
    IN  [decision_id |-> "DEC-" \o run_id \o "-" \o Pad2(n + 1),
         scenario |-> scenario,
         rules_triggered |-> relevant_rules,
         thresholds_breached |-> relevant_breaches,
         ml_predictions |-> entry_ml,
         recommendation |-> action,
         reasoning |-> StrOf(rec_reasoning(rec)),
         supporting_indicators |-> supporting_of(ro, ml, action_lower, agent_lower),
         agent_source |-> agent,
         expected_kpi_impact |-> kpi,
         logic_trace |-> logic_trace_of(relevant_rules, entry_ml, c)]

from_analysis_raises(recs) == \E i \in 1..Len(recs) : rec_raises(recs[i])

\* the loop over recommendations: each pass appends the entry of the next
\* recommendation, numbered len(log.entries) + 1
RECURSIVE build_entries(_, _, _, _, _, _, _)
build_entries(entries, run_id, scenario, ro, ml, recs, c) ==
    IF Len(entries) = Len(recs) THEN entries
    ELSE build_entries(Append(entries,
                              DecisionEntry(run_id, scenario, ro, ml, recs[Len(entries) + 1],
                                            c, Len(entries))),
                       run_id, scenario, ro, ml, recs, c)

\* DecisionLog.from_analysis; run_id is the uuid prefix drawn for the log
from_analysis(run_id, scenario, ro, ml, recs, c) ==
    [entries |-> build_entries(<<>>, run_id, scenario, ro, ml, recs, c),
     run_id |-> run_id, scenario |-> scenario]

---------------------------------------------------------------------------
(* ValidationReport.add and validate_analysis as operations                 *)

MaxChecks == 3

Severities == {"info", "warning", "error"}

\* Rule outputs: the engine's own, and one whose triggered rule is not below its threshold
ValRuleOutputs ==
    { NoRuleOutput,
      evaluate(Table(AllCols, <<Row("HighRange_1", "Morning", 70, 100, 65, "Shortage", 90)>>),
               [k \in {} |-> 0]),
      LET odd == RuleResult("Low Machine Health", TRUE,
                            Cond("Machine_Uptime_% for {line} = {uptime}% < {thr}%",
                                 "HighRange_1", "", Whole(80), Whole(75)),
                            Whole(75), Whole(80), "DISPATCH_MAINTENANCE", "HIGH")
      IN  RuleEngineOutput(<<odd>>, <<odd>>, <<"DISPATCH_MAINTENANCE">>, "HIGH"),
      \* two lines, each low on uptime and on inventory: four threshold checks
      evaluate(Table(AllCols, <<Row("HighRange_1", "Morning", 70, 100, 65, "Available", 95),
                                Row("MediumRange_1", "Morning", 60, 100, 50, "Available", 95)>>),
               [k \in {} |-> 0]) }

\* ML outputs: none, the heuristics' own, and one with values outside [0, 1]
ValMLOutputs ==
    { NoPredictions,
      predict(NoModel, NoModel, FALSE, MLCoreTable, [k \in {} |-> 0]),
      LET bp(line, p) == BreakdownPrediction(line, p, "LOW", <<>>)
          dp == DelayPrediction(Num(120, 100), "HIGH", "HighRange_1", <<>>, "Heuristic")
      IN  MLPredictions(<<bp("HighRange_1", Num(10, 100)), bp("HighRange_2", Num(150, 100))>>,
                        dp, <<dp>>, <<>>, FALSE),
      \* no delay prediction; the second breakdown probability is above 1
      MLPredictions(<<BreakdownPrediction("HighRange_1", Num(10, 100), "LOW", <<>>),
                      BreakdownPrediction("HighRange_2", Num(150, 100), "HIGH", <<>>)>>,
                    <<>>, <<>>, <<>>, FALSE) }

ValRecLists ==
    { <<>>,
      <<PyDict([action |-> PyStr("Reallocate production to MedRange_Line2"),
                source_agent |-> PyStr("Production Agent")]),
        PyDict([recommendation |-> PyStr("Approve overtime for the night shift")])>>,
      <<PyDict([action |-> PyNone])>>,
      <<PyStr("Dispatch maintenance")>> }

ImpactFields(actual, cap, oee, util, mttr) ==
    [actual_units_lost_during_outage |-> actual, capacity_lost |-> cap,
     oee_used |-> oee, utilization_used |-> util, mttr_hrs |-> mttr]

\* Units lost as supplied: 11.33, 11.4, 22.67 and 30 for capacity 100, OEE 85,
\* utilization 80, MTTR 4 h; and an impact without OEE and utilization
ValImpacts ==
    {ImpactFields(Num(a, 100), Whole(100), Whole(85), Whole(80), Whole(4)) :
        a \in {1133, 1140, 2267, 3000}}
    \cup { [actual_units_lost_during_outage |-> Num(1667, 100), capacity_lost |-> Whole(100),
            mttr_hrs |-> Whole(4)],
           [capacity_lost |-> Whole(100), mttr_hrs |-> Whole(4)],
           [actual_units_lost_during_outage |-> Whole(0), capacity_lost |-> Whole(0),
            mttr_hrs |-> Whole(4)] }

ValContexts ==
    {DictOf([scenario |-> sc, line_master |-> lm, demand |-> dm, scenario_impact |-> si,
             shift_master |-> sm]) :
        sc \in {Present(PyStr("Line_Breakdown"))},
        lm \in {Absent} \cup {Present(m) : m \in LineMasters},
        dm \in {Present(PyNone), Present([avg_demand |-> 100])},
        si \in {Absent} \cup {Present(i) : i \in ValImpacts},
        sm \in {Absent, Present([Night |-> [max_overtime_hrs |-> 4], Morning |-> [shift |-> "Morning"]])}}

\* report.add(name, passed, detail, severity) on the report at hand
Add(name, passed, detail, severity) ==
    /\ pc = "start"
    /\ Len(report.checks) < MaxChecks
    /\ report' = add(report, name, passed, detail, severity)
    /\ UNCHANGED <<pc, df, ctx, rule_output, has_sklearn, breakdown_model, delay_model,
                   trained, ml_output, recommendations, log>>

\* report = validate_analysis(ro, ml, recs, c): the function builds its own report
ValidateAnalysis(ro, ml, recs, c) ==
    /\ pc = "start"
    /\ report = NewReport
    /\ rule_output' = ro /\ ml_output' = ml /\ recommendations' = recs /\ ctx' = c
    /\ IF validate_raises(recs)
       THEN pc' = "raised" /\ report' = report
       ELSE pc' = "done" /\ report' = validate_analysis(ro, ml, recs, c)
    /\ UNCHANGED <<df, has_sklearn, breakdown_model, delay_model, trained, log>>

InitVal ==
    /\ pc = "start" /\ df = Table(AllCols, <<>>) /\ ctx = [k \in {} |-> 0]
    /\ RuleIdle /\ MLIdle /\ LogIdle /\ ReportIdle

NextVal ==
    \/ \E passed \in BOOLEAN, severity \in Severities :
          Add("check", passed, Detail("", <<>>), severity)
    \/ \E ro \in ValRuleOutputs, ml \in ValMLOutputs, recs \in ValRecLists, c \in ValContexts :
          ValidateAnalysis(ro, ml, recs, c)

SpecVal == InitVal /\ [][NextVal]_vars

---------------------------------------------------------------------------
(* DecisionLog.from_analysis as an operation                                *)

MaxRecs == 2
LongLog == 100

RunIds == {"1a2b3c4d", "e5f60718"}

LogRuleOutputs ==
    { NoRuleOutput,
      evaluate(Table(AllCols, <<Row("HighRange_1", "Morning", 70, 100, 65, "Shortage", 90)>>),
               [k \in {} |-> 0]),
      evaluate(Table(AllCols, <<Row("MediumRange_1", "Night", 80, 100, 65, "Available", 90)>>),
               [event_details |-> <<[Event_Type |-> "incident",
                                     Description |-> "Breakdown on MedRange_Line1"]>>]),
      evaluate(Table(AllCols, <<Row("HighRange_1", "Morning", 70, 100, 65, "Available", 90)>>),
               [event_details |-> <<[Event_Type |-> "Equipment_Failure",
                                     Description |-> "Robot arm stopped"]>>]) }

LogMLOutputs ==
    { NoPredictions,
      predict(NoModel, NoModel, FALSE, MLCoreTable,
              [suppliers |-> <<Supplier("Alpha", Whole(90), 10)>>]) }

\* Recommendations: well-formed dicts, a dict without fields, a dict with an
\* empty KPI impact under one key and a value under the next, a dict whose
\* action or agent is not a str, and entries that are not dicts
LogRecs ==
    { PyDict([action |-> PyStr("Dispatch maintenance to HighRange_1"),
              source_agent |-> PyStr("Machine Health Agent"),
              reasoning |-> PyStr("Uptime below threshold")]),
      PyDict([recommendation |-> PyStr("Switch supplier and reorder stock"),
              agent |-> PyStr("Supply Chain Agent"),
              kpi_impact |-> PyStr("Lead Time: -1 day")]),
      PyDict([action |-> PyStr("Review the schedule"), expected_kpi_impact |-> PyStr("")]),
      PyDict([action |-> PyStr("Approve overtime"), expected_kpi_impact |-> PyStr(""),
              kpi_impact |-> PyStr("Overtime Cost: +10%")]),
      PyDict([action |-> PyStr("Switch supplier, then dispatch maintenance")]),
      PyDict([k \in {} |-> PyNone]),
      PyDict([action |-> PyNone, source_agent |-> PyStr("Orchestrator")]),
      PyDict([action |-> PyStr("Increase shift"), source_agent |-> PyInt("7")]),
      PyStr("Dispatch maintenance"),
      PyNone }

LogRecLists == SeqsUpTo(LogRecs, MaxRecs)

LogContexts ==
    { [k \in {} |-> 0],
      [scenario_impact |-> [mttr_hrs |-> Whole(4),
                            actual_units_lost_during_outage |-> Num(1133, 100)]],
      [mttr_sensitivity |-> [orders_at_risk |-> <<"ORD-1", "ORD-2">>]] }

\* One recommendation repeated LongLog times
LongRecs == [i \in 1..LongLog |-> PyDict([action |-> PyStr("Monitor")])]

LogInputs ==
    (LogRuleOutputs \X LogMLOutputs \X LogRecLists \X {[k \in {} |-> 0]})
    \cup (LogRuleOutputs \X LogMLOutputs \X SeqsUpTo(LogRecs, 1) \X LogContexts)
    \cup {<<NoRuleOutput, NoPredictions, LongRecs, [k \in {} |-> 0]>>}

\* log = DecisionLog.from_analysis(scenario, ro, ml, recs, c)
FromAnalysis(run_id, scenario, ro, ml, recs, c) ==
    /\ pc = "start"
    /\ rule_output' = ro /\ ml_output' = ml /\ recommendations' = recs /\ ctx' = c
    /\ IF from_analysis_raises(recs)
       THEN pc' = "raised" /\ log' = log
       ELSE pc' = "done" /\ log' = from_analysis(run_id, scenario, ro, ml, recs, c)
    /\ UNCHANGED <<df, has_sklearn, breakdown_model, delay_model, trained, report>>

InitLog ==
    /\ pc = "start" /\ df = Table(AllCols, <<>>) /\ ctx = [k \in {} |-> 0]
    /\ RuleIdle /\ MLIdle /\ LogIdle /\ ReportIdle

NextLog ==
    \E run_id \in RunIds, inp \in LogInputs :
        FromAnalysis(run_id, "Line_Breakdown", inp[1], inp[2], inp[3], inp[4])

SpecLog == InitLog /\ [][NextLog]_vars

---------------------------------------------------------------------------
(* The pipeline: evaluate, train once, predict, then validate_analysis     *)

MaxPipeRows == 2

\* (uptime, inventory, semiconductor): below both thresholds, above both, on both
\* thresholds, and far below
PipeRows ==
    {Row(l, "Morning", h[1], 100, h[2], h[3], 95) :
        l \in {"HighRange_1", "MediumRange_1"},
        h \in {<<70, 65, "Shortage">>, <<80, 75, "Available">>,
               <<75, 70, "Delayed">>, <<40, 60, "Available">>}}

PipeTables == {Table(AllCols, rows) : rows \in SeqsUpTo(PipeRows, MaxPipeRows)}

PipeContexts ==
    { [k \in {} |-> 0],
      DictOf([scenario |-> Present(PyStr("Line_Breakdown")),
              line_master |-> Present(CHOOSE m \in LineMasters : TRUE),
              demand |-> Present([avg_demand |-> 100]),
              scenario_impact |-> Present(ImpactFields(Num(3000, 100), Whole(100), Whole(85),
                                                       Whole(80), Whole(4)))]) }

\* rule_output = rule_engine.evaluate(scenario_df, context)
PipeEvaluate(d, c) ==
    /\ pc = "start"
    /\ df' = d /\ ctx' = c
    /\ IF evaluate_raises(d, c)
       THEN pc' = "raised" /\ rule_output' = rule_output
       ELSE pc' = "rules" /\ rule_output' = evaluate(d, c)
    /\ UNCHANGED <<has_sklearn, breakdown_model, delay_model, trained, ml_output,
                   recommendations, log, report>>

\* ml_manager = MLModelManager(); ml_manager.train(full_df): once, the manager is kept
PipeTrain(data, bleaves, dleaves) ==
    /\ pc = "rules"
    /\ LET after == train(has_sklearn, breakdown_model, delay_model, trained, data, bleaves, dleaves)
       IN  /\ breakdown_model' = after.breakdown_model
           /\ delay_model' = after.delay_model
           /\ trained' = after.trained
    /\ pc' = "trained"
    /\ UNCHANGED <<df, ctx, rule_output, has_sklearn, ml_output, recommendations, log, report>>

\* ml_output = ml_manager.predict(scenario_df, context)
PipePredict ==
    /\ pc = "trained"
    /\ IF predict_raises(breakdown_model, delay_model, trained, df)
       THEN pc' = "raised" /\ ml_output' = ml_output
       ELSE pc' = "ml" /\ ml_output' = predict(breakdown_model, delay_model, trained, df, ctx)
    /\ UNCHANGED <<df, ctx, rule_output, has_sklearn, breakdown_model, delay_model, trained,
                   recommendations, log, report>>

\* report = validate_analysis(rule_output, ml_output, recommendations, context)
PipeValidate(recs) ==
    /\ pc = "ml"
    /\ recommendations' = recs
    /\ IF validate_raises(recs)
       THEN pc' = "raised" /\ report' = report
       ELSE pc' = "done" /\ report' = validate_analysis(rule_output, ml_output, recs, ctx)
    /\ UNCHANGED <<df, ctx, rule_output, has_sklearn, breakdown_model, delay_model, trained,
                   ml_output, log>>

InitPipe ==
    /\ pc = "start" /\ df = Table(AllCols, <<>>) /\ ctx = [k \in {} |-> 0]
    /\ has_sklearn \in BOOLEAN
    /\ breakdown_model = NoModel /\ delay_model = NoModel /\ trained = FALSE
    /\ ml_output = NoPredictions
    /\ RuleIdle /\ LogIdle /\ ReportIdle

NextPipe ==
    \/ \E d \in PipeTables, c \in PipeContexts : PipeEvaluate(d, c)
    \/ \E data \in TrainingSets, bl \in ClassifierLeaves, dl \in RegressorLeaves :
          PipeTrain(data, bl, dl)
    \/ PipePredict
    \/ \E recs \in ValRecLists : PipeValidate(recs)

SpecPipe == InitPipe /\ [][NextPipe]_vars

---------------------------------------------------------------------------
(* Claims about the rule engine                                            *)

\* a = b as real numbers (no square-root part)
Eq(a, b) == ~a.nan /\ ~b.nan /\ a.num * b.den = b.num * a.den

\* The severity scale LOW < MEDIUM < HIGH < CRITICAL as the claims state it
SeverityRank(sev) ==
    CASE sev = "LOW" -> 1 [] sev = "MEDIUM" -> 2 [] sev = "HIGH" -> 3 [] sev = "CRITICAL" -> 4

\* C1: for every evaluate run, overall_severity is the maximum severity among
\* triggered_rules under LOW < MEDIUM < HIGH < CRITICAL, and LOW when none triggered.
C1_OverallSeverityIsMax ==
    pc = "done" =>
        LET t == rule_output.triggered_rules
            o == rule_output.overall_severity
        IN  IF t = <<>> THEN o = "LOW"
            ELSE /\ \E i \in 1..Len(t) : t[i].severity = o
                 /\ \A i \in 1..Len(t) : SeverityRank(t[i].severity) <= SeverityRank(o)

\* A run whose maximum is CRITICAL and is followed by a less severe triggered rule
C1_Witness ==
    /\ pc = "done"
    /\ rule_output.overall_severity = "CRITICAL"
    /\ Len(rule_output.triggered_rules) >= 3
    /\ rule_output.triggered_rules[Len(rule_output.triggered_rules)].severity = "MEDIUM"

\* The indices of the triggered results, in order
RECURSIVE TriggeredIndices(_, _)
TriggeredIndices(results, i) ==
    IF i > Len(results) THEN <<>>
    ELSE (IF results[i].triggered THEN <<i>> ELSE <<>>) \o TriggeredIndices(results, i + 1)

FirstCarrier(t, a) == CHOOSE i \in 1..Len(t) : t[i].action = a /\ \A j \in 1..(i - 1) : t[j].action # a

\* C2: triggered_rules is exactly the subsequence of all_results with triggered = true,
\* in the same order, and recommended_actions holds each action tag of a triggered rule
\* exactly once, ordered by the first triggered rule that carries it.
C2_TriggeredSubsequenceAndActions ==
    pc = "done" =>
        LET all == rule_output.all_results
            t   == rule_output.triggered_rules
            acts == rule_output.recommended_actions
            idx == TriggeredIndices(all, 1)
        IN  /\ Len(t) = Len(idx)
            /\ \A k \in 1..Len(t) : t[k] = all[idx[k]]
            /\ Range(acts) = {t[k].action : k \in 1..Len(t)}
            /\ \A p, q \in 1..Len(acts) : p # q => acts[p] # acts[q]
            /\ \A p, q \in 1..Len(acts) : p < q => FirstCarrier(t, acts[p]) < FirstCarrier(t, acts[q])

\* A run with an untriggered result between triggered ones, and an action carried twice
C2_Witness ==
    /\ pc = "done"
    /\ \E i, j, k \in 1..Len(rule_output.all_results) :
          /\ i < j /\ j < k
          /\ rule_output.all_results[i].triggered
          /\ ~rule_output.all_results[j].triggered
          /\ rule_output.all_results[k].triggered
    /\ \E i, j \in 1..Len(rule_output.triggered_rules) :
          i < j /\ rule_output.triggered_rules[i].action = rule_output.triggered_rules[j].action
    /\ Len(rule_output.recommended_actions) >= 3

\* peak > mean + 2 * std, from the definition of the sample standard deviation:
\* with S the sum and n the count, n*(x - mean) = n*x - S, so
\*   peak - mean > 2 * sqrt(sum (x - mean)^2 / (n - 1))
\* is n*peak > S and (n*peak - S)^2 * (n - 1) > 4 * sum (n*x - S)^2.
SpikeByDefinition(demand) ==
    LET n == Len(demand)
        S == SumSeq(demand)
        dev == SumSeq([i \in 1..n |-> (n * demand[i] - S) * (n * demand[i] - S)])
        top == n * MaxSeq(demand) - S
    IN  n >= 2 /\ top > 0 /\ top * top * (n - 1) > 4 * dev

DemandResults ==
    SelectSeq(rule_output.all_results, LAMBDA r : r.rule_name = "Demand Spike Detection")

\* C3: with default thresholds the demand spike check emits exactly one result, triggered
\* if and only if peak demand > mean demand + 2 * standard deviation of demand.
C3_DemandSpikeIff ==
    pc = "done" =>
        /\ Len(DemandResults) = 1
        /\ DemandResults[1].triggered <=> SpikeByDefinition(Col(df, "Demand_SUVs"))
        /\ DemandResults[1].action = "INCREASE_SHIFT"

\* A series with a spike: the single result is triggered
C3_Witness ==
    /\ pc = "done"
    /\ Len(DemandResults) = 1
    /\ DemandResults[1].triggered
    /\ Len(df.rows) >= 2

RequiredColumns ==
    {"Assembly_Line", "Machine_Uptime_%", "Demand_SUVs", "Inventory_Status_%", "Shift",
     "Worker_Availability_%"}

ResultsNamed(names) == SelectSeq(rule_output.all_results, LAMBDA r : r.rule_name \in names)

\* C13: evaluate raises, and returns no RuleEngineOutput, whenever the scenario table lacks
\* one of Assembly_Line, Machine_Uptime_%, Demand_SUVs, Inventory_Status_%, Shift,
\* Worker_Availability_%; without event_details the breakdown check yields no result and
\* without a Semiconductor_Availability column the supply-chain check yields none.
C13_MissingRequiredColumnFails ==
    /\ (pc # "start" /\ ~(RequiredColumns \subseteq df.cols)) =>
           (pc = "raised" /\ rule_output = NoRuleOutput)
    /\ pc = "done" =>
           /\ "event_details" \notin DOMAIN ctx =>
                 ResultsNamed({"Line Breakdown Detected", "Line Reallocation Required"}) = <<>>
           /\ "Semiconductor_Availability" \notin df.cols =>
                 ResultsNamed({"Semiconductor Supply Risk"}) = <<>>

\* An event classified as a failure: Event_Type equipment_failure, or a description
\* containing 'breakdown' or 'malfunction' (letter case ignored)
FailureEvent(ev) ==
    \/ "Event_Type" \in DOMAIN ev /\ Lower(ev["Event_Type"]) = "equipment_failure"
    \/ "Description" \in DOMAIN ev /\ \/ Contains(Lower(ev["Description"]), "breakdown")
                                      \/ Contains(Lower(ev["Description"]), "malfunction")

FailureEvents == SelectSeq(Get(ctx, "event_details", <<>>), FailureEvent)

BreakdownNames == {"Line Breakdown Detected", "Line Reallocation Required"}

\* C16: for every failure event of context.event_details the engine emits exactly two
\* triggered results, adjacent and in this order: CRITICAL with DISPATCH_MAINTENANCE, then
\* HIGH with REALLOCATE_LINE; overall_severity is CRITICAL when there is such an event.
C16_FailureEventPairs ==
    pc = "done" =>
        LET all == rule_output.all_results
            t   == rule_output.triggered_rules
            firsts == {i \in 1..Len(all) : all[i].rule_name = "Line Breakdown Detected"}
        IN  /\ Cardinality(firsts) = Len(FailureEvents)
            /\ Len(ResultsNamed(BreakdownNames)) = 2 * Len(FailureEvents)
            /\ \A i \in firsts :
                  /\ all[i].triggered /\ all[i].severity = "CRITICAL"
                  /\ all[i].action = "DISPATCH_MAINTENANCE"
                  /\ i < Len(all)
                  /\ all[i + 1].rule_name = "Line Reallocation Required"
                  /\ all[i + 1].triggered /\ all[i + 1].severity = "HIGH"
                  /\ all[i + 1].action = "REALLOCATE_LINE"
            /\ \A k \in 1..Len(t) :
                  t[k].rule_name = "Line Breakdown Detected" =>
                      k < Len(t) /\ t[k + 1].rule_name = "Line Reallocation Required"
            /\ FailureEvents # <<>> => rule_output.overall_severity = "CRITICAL"

\* Two failure events, one by its type and one by its description only, after a machine
\* health result: two pairs in the output
C16_Witness ==
    /\ pc = "done"
    /\ Len(FailureEvents) = 2
    /\ \E i, j \in 1..2 :
          /\ Lower(Get(FailureEvents[i], "Event_Type", "")) = "equipment_failure"
          /\ Lower(Get(FailureEvents[j], "Event_Type", "")) # "equipment_failure"
    /\ Len(ResultsNamed(BreakdownNames)) = 4
    /\ rule_output.all_results[1].rule_name = "Low Machine Health"
    /\ rule_output.overall_severity = "CRITICAL"

OverloadResults == ResultsNamed({"Line Overload"})

\* The lines of the scenario table, in order of first appearance
TableLines == Unique(Col(df, "Assembly_Line"))

AffectedLine == Get(Get(ctx, "scenario_impact", <<>>), "affected_line", "")

\* The line is the one under active breakdown, by its table name or its master-data name
IsAffected(line) ==
    AffectedLine # "" /\ (line = AffectedLine \/ Get(sim_to_master, line, "") = AffectedLine)

\* The master-data record of a line of the table (empty when there is none)
MasterRecord(line) == Get(Get(ctx, "line_master", <<>>), Get(sim_to_master, line, ""), <<>>)

\* One result per line of `lines`, in order, triggered exactly above 95 % utilization
OverloadResultsAre(lines) ==
    /\ Len(OverloadResults) = Len(lines)
    /\ \A k \in 1..Len(OverloadResults) :
          LET r == OverloadResults[k]
              over == Get(MasterRecord(lines[k]), "utilization", 80) > 95
          IN  /\ r.condition.entity = lines[k]
              /\ r.triggered = over
              /\ r.action = "REALLOCATE_LINE"
              /\ r.severity = (IF over THEN "HIGH" ELSE "LOW")

\* C17 as stated: no result for the line under active breakdown, and exactly one Line
\* Overload result for every other line of the scenario table, triggered (REALLOCATE_LINE,
\* HIGH) if and only if its master-data utilization exceeds 95.
C17_AsStated ==
    pc = "done" => OverloadResultsAre(SelectSeq(TableLines, LAMBDA l : ~IsAffected(l)))

\* C17: no result for the line under active breakdown (under either name); exactly one
\* Line Overload result, in table order, for every other line of the scenario table whose
\* master-data record has a positive daily_capacity, triggered (REALLOCATE_LINE, HIGH) if
\* and only if the record's utilization (80 when it has none) exceeds 95; no result for a
\* line without such a record.
C17_OverloadPerLineWithCapacity ==
    pc = "done" =>
        /\ OverloadResultsAre(SelectSeq(TableLines,
               LAMBDA l : ~IsAffected(l) /\ Get(MasterRecord(l), "daily_capacity", 0) > 0))
        /\ \A k \in 1..Len(OverloadResults) : ~IsAffected(OverloadResults[k].condition.entity)

\* Both lines in the table, one of them under breakdown and left out, the other overloaded
C17_Witness ==
    /\ pc = "done"
    /\ Len(TableLines) = 2
    /\ \E i \in 1..2 : IsAffected(TableLines[i]) /\ Get(MasterRecord(TableLines[i]), "daily_capacity", 0) > 0
    /\ Len(OverloadResults) = 1
    /\ OverloadResults[1].triggered /\ OverloadResults[1].severity = "HIGH"

SupplyResults == ResultsNamed({"Semiconductor Supply Risk"})

\* C18: over a table with a Semiconductor_Availability column the supply-chain check emits
\* one result, triggered (SWITCH_SUPPLIER, HIGH) if and only if the modal status of the
\* records (the first in sort order among equally frequent ones) is Shortage or Critical,
\* or more than 30 % of the records have status Shortage.
C18_SupplyChainIff ==
    (pc = "done" /\ "Semiconductor_Availability" \in df.cols) =>
        LET status == Col(df, "Semiconductor_Availability")
            risk   == \/ Mode(status) \in {"Shortage", "Critical"}
                      \/ 100 * Count(status, "Shortage") > 30 * Len(status)
        IN  /\ Len(SupplyResults) = 1
            /\ SupplyResults[1].triggered = risk
            /\ SupplyResults[1].action = "SWITCH_SUPPLIER"
            /\ SupplyResults[1].severity = (IF risk THEN "HIGH" ELSE "LOW")

\* The modal status is Available and a third of the records are Shortage: triggered
C18_Witness ==
    /\ pc = "done" /\ "Semiconductor_Availability" \in df.cols
    /\ Len(df.rows) = 3
    /\ Mode(Col(df, "Semiconductor_Availability")) = "Available"
    /\ Count(Col(df, "Semiconductor_Availability"), "Shortage") = 1
    /\ Len(SupplyResults) = 1
    /\ SupplyResults[1].triggered /\ SupplyResults[1].severity = "HIGH"

\* The cells of column `value` in the records whose column `by` holds `entity`
CellsOf(by, entity, value) ==
    LET rows == SelectSeq(df.rows, LAMBDA r : r[by] = entity)
    IN  [i \in 1..Len(rows) |-> rows[i][value]]

\* The results named `name` are one per distinct value of column `by`, in order of first
\* appearance, each triggered exactly when the average of `value` over the entity's records
\* is below `thr`, with the given action and severity (LOW when not triggered)
OnePerEntity(name, by, value, thr, action, severity) ==
    LET results  == ResultsNamed({name})
        entities == Unique(Col(df, by))
    IN  /\ Len(results) = Len(entities)
        /\ \A k \in 1..Len(results) :
              LET cells == CellsOf(by, entities[k], value)
                  below == SumSeq(cells) < thr * Len(cells)
              IN  /\ results[k].condition.entity = entities[k]
                  /\ results[k].triggered = below
                  /\ results[k].action = action
                  /\ results[k].severity = (IF below THEN severity ELSE "LOW")

---------------------------------------------------------------------------
(* Claims about the prediction layer                                       *)

InUnitRange(x) == Le(Whole(0), x) /\ Le(x, Whole(1))

\* C4: every BreakdownPrediction.probability and DelayPrediction.risk_score that
\* predict returns lies in [0, 1], with trained models and with the heuristics.
C4_PredictionsInUnitRange ==
    pc = "done" =>
        /\ \A i \in 1..Len(ml_output.breakdown_predictions) :
              InUnitRange(ml_output.breakdown_predictions[i].probability)
        /\ \A i \in 1..Len(ml_output.delay_predictions) :
              InUnitRange(ml_output.delay_predictions[i].risk_score)

\* A trained run in which the regressor's output falls outside the range that
\* maps into [0, 1], and the score is reported on both ends of the range
C4_Witness ==
    /\ pc = "done"
    /\ ml_output.models_trained
    /\ delay_model.state = "fitted" /\ delay_model.below < 0 /\ delay_model.above > 1000
    /\ \E i, j \in 1..Len(ml_output.delay_predictions) :
          /\ Eq(ml_output.delay_predictions[i].risk_score, Whole(1))
          /\ Eq(ml_output.delay_predictions[j].risk_score, Whole(0))

Lines_of(preds) == [i \in 1..Len(preds) |-> preds[i].line]

HasRecords(d, line) == \E i \in 1..Len(d.rows) : d.rows[i]["Assembly_Line"] \in possible_names(line)

\* The heuristic probability computed from the whole table
WholeTableProbability(d) ==
    LET uptime == IF "Machine_Uptime_%" \in d.cols THEN Mean(Col(d, "Machine_Uptime_%")) ELSE Whole(85)
        raw == Affine(100, uptime, 1, 50)
    IN  IF uptime.nan \/ Gt(raw, Whole(1)) THEN Whole(1)
        ELSE IF Lt(raw, Whole(0)) THEN Whole(0) ELSE Round2(raw)

ClampedScore(r) ==
    LET raw == Num(2 * r.reliability.num - 3 * r.lead_time_days * r.reliability.den,
                   2 * r.reliability.den)
    IN  IF Lt(raw, Whole(0)) THEN Whole(0) ELSE IF Gt(raw, Whole(100)) THEN Whole(100) ELSE raw

BandOf(score) ==
    IF Le(Whole(80), score) THEN "LOW" ELSE IF Le(Whole(60), score) THEN "MEDIUM" ELSE "HIGH"

SortedDescending(risks) ==
    \A i, j \in 1..Len(risks) : i < j => ~Lt(risks[i].score, risks[j].score)

\* C10 as stated: the reported score is clamp(reliability - 1.5 * lead_time_days, 0, 100),
\* the band follows from the reported score, and the list is sorted by score descending.
C10_AsStated ==
    pc = "done" =>
        /\ \A i \in 1..Len(ml_output.supplier_risks) :
              LET r == ml_output.supplier_risks[i]
              IN  Eq(r.score, ClampedScore(r)) /\ r.risk_level = BandOf(r.score)
        /\ SortedDescending(ml_output.supplier_risks)

\* C10: one SupplierRisk per supplier (of the first 15); its score is
\* clamp(reliability - 1.5 * lead_time_days, 0, 100) rounded to 2 decimals, its band is
\* LOW / MEDIUM / HIGH by the unrounded clamped value against 80 and 60 (reliability 90,
\* lead time 10 gives 75, MEDIUM), and the list is sorted by reported score, descending.
C10_SupplierScoreRoundedBandSorted ==
    pc = "done" =>
        LET given == Get(ctx, "suppliers", <<>>)
            out   == ml_output.supplier_risks
        IN  /\ Len(out) = (IF Len(given) < 15 THEN Len(given) ELSE 15)
            /\ \A i \in 1..Len(out) :
                  /\ Eq(out[i].score, Round2(ClampedScore(out[i])))
                  /\ out[i].risk_level = BandOf(ClampedScore(out[i]))
                  /\ (Eq(out[i].reliability, Whole(90)) /\ out[i].lead_time_days = 10) =>
                         (Eq(out[i].score, Whole(75)) /\ out[i].risk_level = "MEDIUM")
            /\ SortedDescending(out)

\* Two suppliers given in ascending order of score, one of them the 90 / 10 example
C10_Witness ==
    /\ pc = "done"
    /\ Len(ml_output.supplier_risks) = 2
    /\ ml_output.supplier_risks[1].supplier_name = "Beta"
    /\ ml_output.supplier_risks[2].supplier_name = "Alpha"
    /\ ctx.suppliers[1].name = "Alpha"
    /\ Eq(ml_output.supplier_risks[2].score, Whole(75))

\* C11: train never raises, a model whose fit failed or was skipped stays unset
\* (None) unless it is fitted, and a later predict returns the five lines of both
\* lists, from the heuristic for a model that is unset, without raising because of
\* a model that training left behind.
C11_TrainDegradesToHeuristics ==
    /\ breakdown_model.state \in {"none", "fitted"}
    /\ delay_model.state \in {"none", "fitted"}
    /\ pc = "raised" => breakdown_model.state # "unfitted" /\ delay_model.state # "unfitted"
    /\ pc = "done" =>
          /\ Lines_of(ml_output.breakdown_predictions) = ALL_LINES
          /\ Lines_of(ml_output.delay_predictions) = ALL_LINES
          /\ breakdown_model.state = "none" =>
                ml_output.breakdown_predictions = _heuristic_breakdown(df)
          /\ delay_model.state = "none" =>
                ml_output.delay_predictions = _heuristic_delay_per_line(df)

\* The band of a value bucketed at 0.3 and 0.6
BandAt03And06(p) ==
    IF Gt(p, Num(6, 10)) THEN "HIGH" ELSE IF Gt(p, Num(3, 10)) THEN "MEDIUM" ELSE "LOW"

\* The breakdown probability of a line before it is rounded for the report: the
\* classifier's output when predict uses the classifier, else clamp((100 - uptime)/50, 0, 1)
BreakdownProbability(line) ==
    LET use_df == use_df_for(df, line)
        uptime == IF "Machine_Uptime_%" \in use_df.cols
                  THEN Mean(Col(use_df, "Machine_Uptime_%")) ELSE Whole(85)
    IN  IF trained /\ breakdown_model.state = "fitted"
        THEN Num(stump_output(breakdown_model, use_df), 1000)
        ELSE PyMax(Whole(0), PyMin(Whole(1), Affine(100, uptime, 1, 50)))

\* C14: the risk band of every breakdown prediction is HIGH when the probability is above
\* 0.6, MEDIUM when it is above 0.3 and at most 0.6, LOW otherwise, with the trained
\* classifier and with the heuristic.
C14_BreakdownBandAt03And06 ==
    pc = "done" =>
        \A i \in 1..Len(ml_output.breakdown_predictions) :
            ml_output.breakdown_predictions[i].risk_level
                = BandAt03And06(BreakdownProbability(ml_output.breakdown_predictions[i].line))

\* The records predict uses for a line: the line's own, or all when it has none
RecordsUsedFor(line) ==
    LET own == SelectSeq(df.rows, LAMBDA r : r["Assembly_Line"] \in possible_names(line))
    IN  IF own # <<>> THEN own ELSE df.rows

\* 100 * (0.2 + 0.3 [average inventory < 75] + 0.3 [mode Shortage] or 0.15 [mode Delayed]),
\* capped at 100, over the records used for the line
HeuristicDelayHundredths(line) ==
    LET rows == RecordsUsedFor(line)
        n    == Len(rows)
        low  == /\ "Inventory_Status_%" \in df.cols /\ n > 0
                /\ SumSeq([i \in 1..n |-> rows[i]["Inventory_Status_%"]]) < 75 * n
        status == IF "Semiconductor_Availability" \in df.cols /\ n > 0
                  THEN Mode([i \in 1..n |-> rows[i]["Semiconductor_Availability"]])
                  ELSE "Available"
        sum  == 20 + (IF low THEN 30 ELSE 0)
                   + (IF status = "Shortage" THEN 30 ELSE IF status = "Delayed" THEN 15 ELSE 0)
    IN  IF sum > 100 THEN 100 ELSE sum

HeuristicDelayMode == pc = "done" /\ (~trained \/ delay_model.state = "none")

\* C15: in heuristic mode each line's delay risk score is
\* min(1.0, 0.2 + (0.3 if average inventory < 75) + (0.3 if the modal semiconductor status
\* is Shortage, else 0.15 if it is Delayed)), and its band is HIGH above 0.6, MEDIUM above
\* 0.3, LOW otherwise.
C15_HeuristicDelayScoreAndBand ==
    HeuristicDelayMode =>
        \A i \in 1..Len(ml_output.delay_predictions) :
            LET p == ml_output.delay_predictions[i]
            IN  /\ Eq(p.risk_score, Num(HeuristicDelayHundredths(p.line), 100))
                /\ p.risk_level = BandAt03And06(p.risk_score)

\* A heuristic run with a line at 0.8 (low inventory, Shortage) reported HIGH and a line
\* at 0.5 (low inventory only) reported MEDIUM
C15_Witness ==
    /\ HeuristicDelayMode
    /\ \E i, j \in 1..Len(ml_output.delay_predictions) :
          /\ Eq(ml_output.delay_predictions[i].risk_score, Num(80, 100))
          /\ ml_output.delay_predictions[i].risk_level = "HIGH"
          /\ Eq(ml_output.delay_predictions[j].risk_score, Num(50, 100))
          /\ ml_output.delay_predictions[j].risk_level = "MEDIUM"

\* C23: predict returns exactly one SupplierRisk per supplier record of context.suppliers,
\* for any number of suppliers, and the list does not depend on whether models were trained.
C23_OneRiskPerSupplier ==
    pc = "done" =>
        LET given == Get(ctx, "suppliers", <<>>)
            out   == ml_output.supplier_risks
        IN  /\ Len(out) = Len(given)
            /\ \E f \in [1..Len(out) -> 1..Len(out)] :
                  /\ \A i, j \in 1..Len(out) : f[i] = f[j] => i = j
                  /\ \A i \in 1..Len(out) :
                        out[i].supplier_name = Get(given[f[i]], "name", Get(given[f[i]], "id", "Unknown"))

\* C24: after any sequence of train calls the trained flag, reported as models_trained,
\* is true only if breakdown_model or delay_model is set.
C24_TrainedImpliesAModel ==
    /\ trained => (breakdown_model.state # "none" \/ delay_model.state # "none")
    /\ (pc = "done" /\ ml_output.models_trained) =>
          (breakdown_model.state # "none" \/ delay_model.state # "none")

\* C25: model state is monotone: predict changes none of breakdown_model, delay_model
\* and trained; trained never goes back to false; and a train call that fails or skips
\* a model leaves a previously fitted model fitted.
C25_ModelStateMonotone ==
    [][/\ pc' # pc => UNCHANGED <<breakdown_model, delay_model, trained>>
       /\ trained => trained'
       /\ breakdown_model.state = "fitted" => breakdown_model'.state = "fitted"
       /\ delay_model.state = "fitted" => delay_model'.state = "fitted"]_vars

\* The band a bucketing rule with cuts hi and med (in hundredths) assigns to a value
Bucket(v, hi, med) ==
    IF Gt(v, Num(hi, 100)) THEN "HIGH" ELSE IF Gt(v, Num(med, 100)) THEN "MEDIUM" ELSE "LOW"

\* The band of the stored value, or the next higher band when the stored value is a cut
NearBucket(v, hi, med) ==
    {Bucket(v, hi, med)}
    \cup (IF Eq(v, Num(hi, 100)) THEN {"HIGH"} ELSE {})
    \cup (IF Eq(v, Num(med, 100)) THEN {"MEDIUM"} ELSE {})

\* The breakdown predictions at hand were made by the heuristic
HeuristicBreakdownMode == ~ml_output.models_trained \/ breakdown_model.state = "none"

\* The delay predictions of the output: the list and the one singled out
DelaysOf(ml) ==
    Range(ml.delay_predictions) \cup (IF ml.delay_prediction # <<>> THEN {ml.delay_prediction} ELSE {})

\* C30 as stated: the band stored in every prediction is the band its mode's bucketing
\* rule assigns to the stored, rounded value, also when that value is a bucket boundary.
C30_AsStated ==
    pc = "done" =>
        /\ \A i \in 1..Len(ml_output.breakdown_predictions) :
              LET p == ml_output.breakdown_predictions[i]
              IN  p.risk_level = (IF HeuristicBreakdownMode THEN Bucket(p.probability, 50, 25)
                                  ELSE Bucket(p.probability, 60, 30))
        /\ \A p \in DelaysOf(ml_output) : p.risk_level = Bucket(p.risk_score, 60, 30)

\* C30: the band of every prediction is assigned to the value before rounding, so it is
\* the band of the stored value unless the stored value is exactly a bucket boundary,
\* where it is the band of the boundary or the next higher one.
C30_BandOfValueBeforeRounding ==
    pc = "done" =>
        /\ \A i \in 1..Len(ml_output.breakdown_predictions) :
              LET p == ml_output.breakdown_predictions[i]
              IN  p.risk_level \in (IF HeuristicBreakdownMode THEN NearBucket(p.probability, 50, 25)
                                    ELSE NearBucket(p.probability, 60, 30))
        /\ \A p \in DelaysOf(ml_output) : p.risk_level \in NearBucket(p.risk_score, 60, 30)

\* The classifier's 0.604 is stored as 0.6 with band HIGH
C30_Witness ==
    /\ pc = "done"
    /\ ml_output.models_trained /\ breakdown_model.state = "fitted"
    /\ \E i \in 1..Len(ml_output.breakdown_predictions) :
          /\ Eq(ml_output.breakdown_predictions[i].probability, Num(60, 100))
          /\ ml_output.breakdown_predictions[i].risk_level = "HIGH"

---------------------------------------------------------------------------
(* Claims about the validation report                                      *)

FailedError(check) == ~check.passed /\ check.severity = "error"

\* C8: after any sequence of add calls, and for every report validate_analysis returns,
\* overall_passed is false if and only if some recorded check has passed = false and
\* severity = error.
C8_OverallPassedIffNoFailedError ==
    report.overall_passed = ~(\E i \in 1..Len(report.checks) : FailedError(report.checks[i]))

\* A failed error check is followed by a failed warning and by a passed error check
C8_Witness ==
    /\ Len(report.checks) = 3
    /\ FailedError(report.checks[1])
    /\ ~report.checks[2].passed /\ report.checks[2].severity = "warning"
    /\ report.checks[3].passed /\ report.checks[3].severity = "error"
    /\ ~report.overall_passed

UnitsLostChecks ==
    SelectSeq(report.checks, LAMBDA ch : ch.detail.fmt =
        "Expected {expected}, got {actual} (cap={cap}, oee={oee}%, util={util}%, mttr={mttr}h)")

\* The scenario-impact fields of the claim: capacity 100, OEE 85, utilization 80, MTTR 4 h
\* and the units lost as supplied, in hundredths
ClaimImpact(hundredths) ==
    /\ pc = "done"
    /\ "scenario_impact" \in DOMAIN ctx
    /\ ctx.scenario_impact = ImpactFields(Num(hundredths, 100), Whole(100), Whole(85),
                                          Whole(80), Whole(4))

\* C9 as stated: with capacity 100, OEE 85, utilization 80, MTTR 4 h a supplied value of
\* 22.67 passes the units-lost check and a supplied value of 30 fails it with severity error.
C9_AsStated ==
    /\ ClaimImpact(2267) =>
          /\ Len(UnitsLostChecks) = 1
          /\ UnitsLostChecks[1].passed /\ UnitsLostChecks[1].severity # "error"
    /\ ClaimImpact(3000) =>
          /\ Len(UnitsLostChecks) = 1
          /\ FailedError(UnitsLostChecks[1])

\* C9: with capacity 100, OEE 85, utilization 80, MTTR 4 h validate_analysis recomputes
\* units lost as round(100 * 0.85 * 0.80 * 4 / 24, 2) = 11.33; a supplied value within 0.1
\* of it (11.33, 11.4) passes, and the supplied values 22.67 and 30 each produce a failed
\* error-severity check and overall_passed = false.
C9_UnitsLostRecomputed ==
    \A a \in {1133, 1140, 2267, 3000} :
        ClaimImpact(a) =>
            /\ Len(UnitsLostChecks) = 1
            /\ Eq(UnitsLostChecks[1].detail.args[1], Num(1133, 100))
            /\ UnitsLostChecks[1].passed = (a \in {1133, 1140})
            /\ UnitsLostChecks[1].severity = (IF a \in {1133, 1140} THEN "info" ELSE "error")
            /\ (a \in {2267, 3000}) => ~report.overall_passed

\* The supplied value 22.67 is checked against the recomputed 11.33 and fails
C9_Witness ==
    /\ ClaimImpact(2267)
    /\ Len(UnitsLostChecks) = 1
    /\ FailedError(UnitsLostChecks[1])
    /\ ~report.overall_passed

DelayChecks ==
    SelectSeq(report.checks, LAMBDA ch : ch.detail.fmt = "Delay risk score = {risk:.3f}")

BreakdownChecks ==
    SelectSeq(report.checks, LAMBDA ch : ch.detail.fmt = "Probability = {prob:.3f}")

\* The triggered rules that get a threshold check: named for uptime, machine or inventory
ThresholdRules ==
    SelectSeq(rule_output.triggered_rules,
              LAMBDA r : AnyIn(Lower(r.rule_name), {"uptime", "machine", "inventory"}))

\* A failed error-severity check is recorded for the value
Flagged(checks, value) ==
    \E i \in 1..Len(checks) : FailedError(checks[i]) /\ checks[i].detail.args[1] = value

\* C22 as stated: every delay risk score and breakdown probability outside [0,1] gets a
\* failed error-severity check and makes overall_passed false, however many checks were
\* recorded before it.
C22_AsStated ==
    pc = "done" =>
        /\ (ml_output.delay_prediction # <<>> /\ ~InUnitRange(ml_output.delay_prediction.risk_score)) =>
              (Flagged(DelayChecks, ml_output.delay_prediction.risk_score) /\ ~report.overall_passed)
        /\ \A j \in 1..Len(ml_output.breakdown_predictions) :
              ~InUnitRange(ml_output.breakdown_predictions[j].probability) =>
                  /\ \E i \in 1..Len(BreakdownChecks) :
                        /\ FailedError(BreakdownChecks[i])
                        /\ BreakdownChecks[i].name =
                              "Breakdown prob for " \o ml_output.breakdown_predictions[j].line \o " in [0, 1]"
                  /\ ~report.overall_passed

\* The number of breakdown probabilities checked: the first always, the next ones while
\* the report holds fewer than 5 checks
BreakdownChecked ==
    LET before == Len(ThresholdRules) + (IF ml_output.delay_prediction # <<>> THEN 1 ELSE 0)
        room == IF 5 - before < 1 THEN 1 ELSE 5 - before
        n == Len(ml_output.breakdown_predictions)
    IN  IF n < room THEN n ELSE room

\* C22: the delay risk score is always checked, and the breakdown probabilities are checked
\* in order, the first always and each next one while the report holds fewer than 5 checks;
\* every checked value outside [0,1] gets a failed error-severity check and makes
\* overall_passed false, and the probabilities after the cut-off get no check.
C22_OutOfRangeFlaggedUpToLimit ==
    pc = "done" =>
        /\ ml_output.delay_prediction # <<>> =>
              /\ Len(DelayChecks) = 1
              /\ DelayChecks[1].passed = InUnitRange(ml_output.delay_prediction.risk_score)
              /\ ~DelayChecks[1].passed => (FailedError(DelayChecks[1]) /\ ~report.overall_passed)
        /\ Len(BreakdownChecks) = BreakdownChecked
        /\ \A j \in 1..BreakdownChecked :
              LET bp == ml_output.breakdown_predictions[j]
              IN  /\ BreakdownChecks[j].name = "Breakdown prob for " \o bp.line \o " in [0, 1]"
                  /\ BreakdownChecks[j].passed = InUnitRange(bp.probability)
                  /\ ~BreakdownChecks[j].passed =>
                        (FailedError(BreakdownChecks[j]) /\ ~report.overall_passed)

\* Four threshold checks precede the breakdown checks: the first probability is checked,
\* the second, above 1, is not, and the report passes
C22_Witness ==
    /\ pc = "done"
    /\ Len(ThresholdRules) = 4
    /\ Len(ml_output.breakdown_predictions) = 2
    /\ ~InUnitRange(ml_output.breakdown_predictions[2].probability)
    /\ Len(BreakdownChecks) = 1
    /\ report.overall_passed

RuleThresholdChecks ==
    SelectSeq(report.checks, LAMBDA ch : ch.detail.fmt = "Actual {actual:.1f} < threshold {threshold}")

ContextChecks == SelectSeq(report.checks, LAMBDA ch : ch.name = "Context completeness")

MissingKeys == {k \in {"scenario", "line_master", "demand"} : k \notin DOMAIN ctx \/ ctx[k] = PyNone}

\* C28: overall_passed is false only because of an out-of-range ML value or a units-lost
\* mismatch; a triggered uptime / inventory rule whose actual value is not below its
\* threshold, and missing required context keys, each give a failed check of warning
\* severity and leave overall_passed true.
C28_WarningsLeaveReportPassed ==
    pc = "done" =>
        /\ ~report.overall_passed =>
              \E ch \in Range(DelayChecks) \cup Range(BreakdownChecks) \cup Range(UnitsLostChecks) :
                  FailedError(ch)
        /\ \A ch \in Range(RuleThresholdChecks) \cup Range(ContextChecks) : ch.severity # "error"
        /\ Len(RuleThresholdChecks) = Len(ThresholdRules)
        /\ \A k \in 1..Len(ThresholdRules) :
              ~Lt(ThresholdRules[k].actual_value, ThresholdRules[k].threshold) =>
                  (~RuleThresholdChecks[k].passed /\ RuleThresholdChecks[k].severity = "warning")
        /\ Len(ContextChecks) = 1
        /\ MissingKeys # {} => (~ContextChecks[1].passed /\ ContextChecks[1].severity = "warning")

\* A rule at 80 against a threshold of 75 and a context without line_master: two failed
\* warnings and a report that passes
C28_Witness ==
    /\ pc = "done"
    /\ Len(RuleThresholdChecks) = 1
    /\ ~RuleThresholdChecks[1].passed /\ RuleThresholdChecks[1].severity = "warning"
    /\ "line_master" \in MissingKeys
    /\ ~ContextChecks[1].passed
    /\ report.overall_passed

---------------------------------------------------------------------------
(* Claims about the decision log                                           *)

\* Code points of the characters of a decision_id, in ASCII order
CharCode(ch) ==
    LET ascii == "-0123456789ABCDEFGHIJKLMNOPQRSTUVWXYZabcdefghijklmnopqrstuvwxyz"
    IN  CHOOSE i \in 1..Len(ascii) : SubSeq(ascii, i, i) = ch

\* a < b as strings
RECURSIVE StrLt(_, _)
StrLt(a, b) ==
    IF b = "" THEN FALSE
    ELSE IF a = "" THEN TRUE
    ELSE IF SubSeq(a, 1, 1) = SubSeq(b, 1, 1) THEN StrLt(SubSeq(a, 2, Len(a)), SubSeq(b, 2, Len(b)))
    ELSE CharCode(SubSeq(a, 1, 1)) < CharCode(SubSeq(b, 1, 1))

\* C6: a log that from_analysis returns has one entry per recommendation, in input order
\* (none for an empty list), and its decision_id values are pairwise distinct and strictly
\* increasing in entry order.
C6_OneEntryEachIdsIncreasing ==
    pc = "done" =>
        /\ Len(log.entries) = Len(recommendations)
        /\ \A i \in 1..Len(log.entries) :
              log.entries[i].recommendation = StrOf(rec_action(recommendations[i]))
        /\ \A i, j \in 1..Len(log.entries) :
              i # j => log.entries[i].decision_id # log.entries[j].decision_id
        /\ \A i \in 1..(Len(log.entries) - 1) :
              StrLt(log.entries[i].decision_id, log.entries[i + 1].decision_id)

\* C7: from_analysis never raises on a malformed recommendation (not a dict, lacking
\* fields, or with a non-string action or agent): the call returns a log with one entry
\* for each recommendation.
C7_NeverRaisesOnMalformed ==
    /\ pc # "raised"
    /\ pc = "done" => Len(log.entries) = Len(recommendations)

\* The non-empty KPI-impact values a recommendation record carries
OwnKpiValues(rec) ==
    {StrOf(rec.d[k]) : k \in {j \in {"expected_kpi_impact", "kpi_impact", "expected_impact"} :
                                 j \in DOMAIN rec.d /\ Truthy(rec.d[j])}}

StartsWith(text, prefix) == Len(prefix) <= Len(text) /\ SubSeq(text, 1, Len(prefix)) = prefix

\* A text of the action-tag table, possibly extended with context, or the generic text
DerivedKpiText(text) ==
    \/ text = "Refer to KPI Summary for projected impact"
    \/ \E i \in 1..Len(_ACTION_KPI_MAP) : StartsWith(text, _ACTION_KPI_MAP[i][2])

\* C12: every entry of a log from_analysis returns has a non-empty expected_kpi_impact:
\* a non-empty KPI-impact value of the recommendation record (under expected_kpi_impact,
\* kpi_impact or expected_impact) whenever it carries one, otherwise a text of the
\* action-tag table or the generic 'Refer to KPI Summary' text.
C12_KpiImpactOwnOrDerived ==
    pc = "done" =>
        \A i \in 1..Len(log.entries) :
            LET own == OwnKpiValues(recommendations[i])
                kpi == log.entries[i].expected_kpi_impact
            IN  /\ kpi # ""
                /\ IF own # {} THEN kpi \in own ELSE DerivedKpiText(kpi)

\* No triggered rule matches the recommendation by action text, rule name or agent affinity
NothingMatches(rec) ==
    \A k \in 1..Len(rule_output.triggered_rules) :
        ~is_relevant(RuleDict(rule_output.triggered_rules[k]),
                     Lower(StrOf(rec_action(rec))), Lower(StrOf(rec_agent(rec))))

\* The first triggered rule among those of maximum severity
FirstMostSevere ==
    LET t == rule_output.triggered_rules
    IN  t[CHOOSE k \in 1..Len(t) :
              /\ \A j \in 1..Len(t) : SeverityRank(t[j].severity) <= SeverityRank(t[k].severity)
              /\ \A j \in 1..(k - 1) : SeverityRank(t[j].severity) < SeverityRank(t[k].severity)]

\* C20: when no triggered rule matches a recommendation and at least one rule was
\* triggered, the entry's rules_triggered holds exactly one rule: the first-encountered
\* triggered rule among those of maximum severity.
C20_FallbackToFirstMostSevere ==
    pc = "done" =>
        \A i \in 1..Len(log.entries) :
            (NothingMatches(recommendations[i]) /\ rule_output.triggered_rules # <<>>) =>
                /\ Len(log.entries[i].rules_triggered) = 1
                /\ log.entries[i].rules_triggered[1].rule = FirstMostSevere.rule_name
                /\ log.entries[i].rules_triggered[1].condition = FirstMostSevere.condition
                /\ log.entries[i].rules_triggered[1].severity = FirstMostSevere.severity

\* A recommendation that matches nothing, with a HIGH rule triggered before the CRITICAL one
C20_Witness ==
    /\ pc = "done"
    /\ Len(log.entries) >= 1
    /\ NothingMatches(recommendations[1])
    /\ Len(rule_output.triggered_rules) >= 3
    /\ rule_output.triggered_rules[1].severity = "HIGH"
    /\ rule_output.triggered_rules[2].severity = "CRITICAL"
    /\ log.entries[1].rules_triggered[1].severity = "CRITICAL"

\* The ML output holds at least one prediction
HasPrediction(ml) ==
    \/ ml.breakdown_predictions # <<>>
    \/ ml.delay_prediction # <<>>
    \/ ml.delay_predictions # <<>>
    \/ ml.supplier_risks # <<>>

\* C21: every entry has a supporting indicator whenever the rule output has a
\* triggered rule or the ML output has a prediction.
C21_SupportingNeverEmpty ==
    pc = "done" =>
        ((rule_output.triggered_rules # <<>> \/ HasPrediction(ml_output)) =>
            \A i \in 1..Len(log.entries) : log.entries[i].supporting_indicators # <<>>)

\* sub is obtained from full by leaving elements out
RECURSIVE IsSubsequence(_, _)
IsSubsequence(sub, full) ==
    IF sub = <<>> THEN TRUE
    ELSE IF full = <<>> THEN FALSE
    ELSE IF Head(sub) = Head(full) THEN IsSubsequence(Tail(sub), Tail(full))
    ELSE IsSubsequence(sub, Tail(full))

\* Each triggered rule as its excerpt and its breach string
TriggeredExcerpts ==
    [k \in 1..Len(rule_output.triggered_rules) |->
        LET r == rule_output.triggered_rules[k]
        IN  <<[rule |-> r.rule_name, condition |-> r.condition, threshold |-> r.threshold,
               actual |-> r.actual_value, action |-> r.action, severity |-> r.severity],
              Text("{rule_name}: {condition}", <<r.rule_name, r.condition>>)>>]

\* C26: in every entry rules_triggered holds excerpts of triggered rules, in triggered
\* order and without repetition; thresholds_breached has the same length and its i-th
\* string is the breach string of the i-th rule; and rules_triggered is empty if and only
\* if no rule was triggered.
C26_RulesAndBreachesAligned ==
    pc = "done" =>
        \A i \in 1..Len(log.entries) :
            LET e == log.entries[i]
            IN  /\ Len(e.thresholds_breached) = Len(e.rules_triggered)
                /\ IsSubsequence([k \in 1..Len(e.rules_triggered) |->
                                     <<e.rules_triggered[k], e.thresholds_breached[k]>>],
                                 TriggeredExcerpts)
                /\ (e.rules_triggered = <<>>) = (rule_output.triggered_rules = <<>>)

\* An entry showing the two maintenance rules out of five triggered ones
C26_Witness ==
    /\ pc = "done"
    /\ Len(log.entries) >= 1
    /\ Len(rule_output.triggered_rules) = 5
    /\ Len(log.entries[1].rules_triggered) = 2
    /\ log.entries[1].rules_triggered[2].rule = "Line Breakdown Detected"
    /\ log.entries[1].thresholds_breached[2] = TriggeredExcerpts[2][2]

\* The static table entries whose words occur in the action text, by table position
TagsInText(action) ==
    {k \in 1..Len(_ACTION_KPI_MAP) : Contains(Lower(action), Unscore(Lower(_ACTION_KPI_MAP[k][1])))}

\* The KPI impact of entry i was derived, not taken from the recommendation
KpiDerived(i) == ~Truthy(rec_kpi(recommendations[i]))

---------------------------------------------------------------------------
(* Claims about the pipeline                                               *)

\* C29: validate_analysis run on the output of evaluate and the output of predict for
\* the same table and context records no failed rule-threshold check and no failed ML
\* range check, so overall_passed can be false only through the units-lost check.
C29_PipelineOutputsValidate ==
    pc = "done" =>
        /\ \A ch \in Range(RuleThresholdChecks) \cup Range(DelayChecks) \cup Range(BreakdownChecks) :
              ch.passed
        /\ ~report.overall_passed =>
              \E ch \in Range(UnitsLostChecks) : FailedError(ch)

\* A run with fitted models whose report holds passed threshold and range checks and
\* fails on the units-lost check alone
C29_Witness ==
    /\ pc = "done"
    /\ ml_output.models_trained /\ breakdown_model.state = "fitted"
    /\ Len(RuleThresholdChecks) >= 2
    /\ Len(DelayChecks) = 1
    /\ Len(BreakdownChecks) >= 1
    /\ ~report.overall_passed

=============================================================================
